---- MODULE Spec2Model ----
(***************************************************************************)
(* Admin dashboard (src/src/pages/Admin.tsx): three forms (project,        *)
(* service, gallery), their submit handlers with the sequential media      *)
(* upload loops, the delete handlers and the list refreshes, against a     *)
(* backend (database tables and object storage) whose every request may    *)
(* succeed or fail.  Every `await` of a handler is a step boundary: the    *)
(* handler's closure (the state values of the render in which it was       *)
(* invoked) is kept in a call record while the request is in flight.       *)
(***************************************************************************)
EXTENDS Integers, Sequences, FiniteSets, TLC

(***************************************************************************)
(* Bounds of the model.                                                    *)
(***************************************************************************)
MaxFiles == 2       \* files in one selection
MaxPad == 1         \* whitespace characters around a typed text
MaxId == 1          \* projects or services the backend creates in one run
MaxRows == 2        \* gallery rows the backend creates in one run
MaxObjects == 3     \* objects the storage holds in one run
MaxCalls == 2       \* invocations of one handler in flight together
MaxFetch == 2       \* refreshes in flight or to come when a delete starts
MaxPending == 1     \* refreshes in flight or to come when a submission starts

(***************************************************************************)
(* Texts.  A text is abstracted to the number of characters that survive   *)
(* String.prototype.trim (len), the number of whitespace characters around *)
(* them (pad) and a tag for its content.                                   *)
(***************************************************************************)
Text(n, p, t) == [len |-> n, pad |-> p, tag |-> t]
Empty == Text(0, 0, "")
Length(s) == s.len + s.pad
trim(s) == IF s.len = 0 THEN Empty ELSE Text(s.len, 0, s.tag)
Truthy(s) == Length(s) > 0
\* `undefined` and `null` where a text is expected
Undefined == Text(0, 0, "undefined")
Null == Text(0, 0, "null")

(***************************************************************************)
(* Numbers.  The year input holds a string: empty, an integer literal, a   *)
(* literal with a fraction, or something parseInt cannot read.             *)
(***************************************************************************)
Num(v) == [kind |-> "number", val |-> v]
NaN == [kind |-> "NaN", val |-> 0]
NoNum == [kind |-> "undefined", val |-> 0]
YearText(k, v) == [kind |-> k, val |-> v]
NoYear == YearText("empty", 0)
\* parseInt: the leading integer of the string, NaN when there is none
parseInt(s) == IF s.kind \in {"int", "frac"} THEN Num(s.val) ELSE NaN

(***************************************************************************)
(* projectSchema (z.object): every string field is trimmed, then bounded.  *)
(***************************************************************************)
TitleMax == 200
DescriptionMax == 2000
CategoryMax == 100
LocationMax == 200
YearMin == 1900
CurrentYear == 2026

\* a schema without the upper bound: z.string().trim().min(1)
AtLeastOne(s, n) == trim(s).len >= 1
\* z.string().trim().min(1).max(n)
RequiredString(s, n) == trim(s).len >= 1 /\ trim(s).len <= n
\* z.string().trim().max(n).optional()
OptionalString(s, n) == s = Undefined \/ trim(s).len <= n
\* a schema whose year_completed is z.number().optional()
AnyYear(y) == y = NoNum \/ y.kind = "number"
\* z.number().min(1900).max(new Date().getFullYear() + 1).optional()
OptionalYear(y) ==
    \/ y = NoNum
    \/ y.kind = "number" /\ y.val >= YearMin /\ y.val <= CurrentYear + 1

projectSchemaOK(in) ==
    /\ RequiredString(in.title, TitleMax)
    /\ RequiredString(in.description, DescriptionMax)
    /\ RequiredString(in.category, CategoryMax)
    /\ OptionalString(in.location, LocationMax)
    /\ OptionalYear(in.year_completed)

\* the value projectSchema.parse returns for an accepted input
projectSchemaParse(in) ==
    [title |-> trim(in.title), description |-> trim(in.description),
     category |-> trim(in.category),
     location |-> IF in.location = Undefined THEN Undefined ELSE trim(in.location),
     year_completed |-> in.year_completed]

(***************************************************************************)
(* State.                                                                  *)
(***************************************************************************)
VARIABLES
    \* backend: database tables, stored objects, the next row id
    db, storage, nextId, uploads,
    \* in-memory lists of the view
    projects, services, galleryItems,
    \* project form
    title, description, category, location, yearCompleted, images,
    projectVideos, submitting,
    \* service form
    serviceTitle, serviceSlug, serviceShortDesc, serviceDescription, serviceIcon,
    serviceImages, serviceVideos, editingService, serviceSubmitting,
    \* gallery form
    galleryTitle, galleryDescription, galleryCategory, galleryImages,
    galleryVideoUrl, galleryMediaType, gallerySubmitting,
    \* the tab of the dashboard that is shown (Tabs defaultValue="projects")
    tab,
    \* the session the auth backend holds for this browser, the user the page
    \* has read from it, the loading flag, the route the router is on, and
    \* the position of checkAuth
    session, user, loading, route, authPc,
    \* invocations in flight: handleSubmit, handleServiceSubmit,
    \* handleGallerySubmit, deleteProject/Service/GalleryItem,
    \* fetchProjects/Services/GalleryItems
    submitCalls, serviceSubmitCalls, gallerySubmitCalls, deleteCalls, fetchCalls,
    \* the last notice shown (toast)
    toast,
    \* the public gallery page on the gallery table (Gallery of Admin.tsx,
    \* 1136-1318) and the one on the WordPress galleries (Gallery.tsx): the
    \* state of the component, one field per useState
    galleryView, mediaView,
    \* the service detail page: its slug and state, and the invocations of
    \* fetchServiceDetails in flight
    serviceDetail, detailCalls

backendVars == <<db, storage, nextId, uploads>>
listVars == <<projects, services, galleryItems>>
projectFields == <<title, description, category, location, yearCompleted>>
projectFormVars == <<projectFields, images, projectVideos, submitting>>
serviceFields == <<serviceTitle, serviceSlug, serviceShortDesc, serviceDescription,
                   serviceIcon>>
serviceFormVars == <<serviceFields, serviceImages, serviceVideos, editingService,
                     serviceSubmitting>>
galleryFields == <<galleryTitle, galleryDescription, galleryCategory,
                   galleryVideoUrl, galleryMediaType>>
galleryFormVars == <<galleryFields, galleryImages, gallerySubmitting>>
publicVars == <<galleryView, mediaView, serviceDetail, detailCalls>>
pageVars == <<tab, session, user, loading, route, authPc, publicVars>>
formVars == <<projectFormVars, serviceFormVars, galleryFormVars, pageVars>>
callVars == <<submitCalls, serviceSubmitCalls, gallerySubmitCalls, deleteCalls>>
vars == <<backendVars, listVars, formVars, callVars, fetchCalls, toast>>

\* if (loading) return <div>Loading...</div>; otherwise the dashboard, with
\* the content of tab t visible when t is the selected tab
Shown(t) == route = "/admin" /\ ~loading /\ tab = t

(***************************************************************************)
(* Files the operator can select, and sequences without repetition.        *)
(***************************************************************************)
ImageFiles == 1..MaxFiles
VideoFiles == {MaxFiles + 1}
Injective(q) == \A a, b \in 1..Len(q) : q[a] = q[b] => a = b
FileLists(F) == {q \in UNION {[1..n -> F] : n \in 0..MaxFiles} : Injective(q)}
\* Array.prototype.filter((_, i) => i !== index), index counted from 0
RemoveAt(q, index) == [k \in 1..(Len(q) - 1) |-> IF k <= index THEN q[k] ELSE q[k + 1]]
\* rows of a table as the list a query returns: created_at descending
RECURSIVE Descending(_)
Descending(rows) ==
    IF rows = {} THEN <<>>
    ELSE LET r == CHOOSE x \in rows : \A y \in rows : y.id <= x.id
         IN <<r>> \o Descending(rows \ {r})
Range(q) == {q[k] : k \in 1..Len(q)}

(***************************************************************************)
(* Backend requests.                                                       *)
(***************************************************************************)
Tables == {"projects", "project_images", "project_videos", "services",
           "service_images", "service_videos", "gallery"}
\* an upload whose path is not under the directory of the parent
UnscopedObject(bucket, dir, file) ==
    [bucket |-> bucket, dir |-> 0, file |-> file, name |-> uploads + 1]
\* storage.from(bucket).upload(`${parentId}/${Math.random()}.${ext}`, file):
\* the random name never repeats, here the number of the upload
Object(bucket, dir, file) ==
    [bucket |-> bucket, dir |-> dir, file |-> file, name |-> uploads + 1]
NoObject == [bucket |-> "none", dir |-> 0, file |-> 0, name |-> 0]
Insert(table, row) == [db EXCEPT ![table] = @ \cup {row}]
Request(op, target, arg) == [op |-> op, target |-> target, arg |-> arg]

NoToast == [title |-> "none", description |-> "none"]
Toast(t, d) == [title |-> t, description |-> d]

(***************************************************************************)
(* List refresh: fetchProjects, fetchServices, fetchGalleryItems.  A       *)
(* request is sent, the backend answers it with the rows it holds at that  *)
(* moment (or with an error), and the answer is delivered later.           *)
(***************************************************************************)
FetchTable == [projects |-> "projects", services |-> "services",
               galleryItems |-> "gallery"]
Collections == DOMAIN FetchTable
Sent(coll) == [coll |-> coll, state |-> "sent", data |-> <<>>]
\* fetches of a collection in flight
Fetching(coll) == Cardinality({k \in 1..Len(fetchCalls) : fetchCalls[k].coll = coll})
\* select("*").order(...): the list the backend returns for a collection
Select(coll) == Descending(db[FetchTable[coll]])

\* the backend answers fetch k
FetchServed ==
    \E k \in 1..Len(fetchCalls), ok \in BOOLEAN :
        LET c == fetchCalls[k] IN
        /\ c.state = "sent"
        /\ fetchCalls' = [fetchCalls EXCEPT
               ![k] = IF ok
                      THEN [c EXCEPT !.state = "data", !.data = Select(c.coll)]
                      ELSE [c EXCEPT !.state = "error"]]
        /\ UNCHANGED <<backendVars, listVars, formVars, callVars, toast>>

\* setProjects(data || []) / setServices / setGalleryItems, or the error toast
SetList(coll, data) ==
    /\ projects' = IF coll = "projects" THEN data ELSE projects
    /\ services' = IF coll = "services" THEN data ELSE services
    /\ galleryItems' = IF coll = "galleryItems" THEN data ELSE galleryItems

\* the answer of fetch k arrives: the continuation after the await
FetchResolved ==
    \E k \in 1..Len(fetchCalls) :
        LET c == fetchCalls[k] IN
        /\ c.state # "sent"
        /\ fetchCalls' = RemoveAt(fetchCalls, k - 1)
        /\ IF c.state = "error"
           THEN /\ toast' = Toast("Error", "Failed to fetch")
                /\ UNCHANGED listVars
           ELSE /\ SetList(c.coll, c.data)
                /\ UNCHANGED toast
        /\ UNCHANGED <<backendVars, formVars, callVars>>

(***************************************************************************)
(* Project form: the inputs.                                               *)
(***************************************************************************)
otherThanProjectForm == <<backendVars, listVars, serviceFormVars, galleryFormVars,
                          pageVars, callVars, fetchCalls, toast>>

\* onChange={(e) => setTitle(e.target.value)} and the like: the operator
\* types into the text inputs of the form, each value drawn from its set.
\* The maxLength and required attributes of the inputs bind the browser's
\* keyboard editing only; the state takes whatever value onChange delivers.
typeProject(T, D, C, L, Y) ==
    /\ Shown("projects")
    /\ \E t \in T, d \in D, c \in C, l \in L, y \in Y :
           /\ title' = t
           /\ description' = d
           /\ category' = c
           /\ location' = l
           /\ yearCompleted' = y
    /\ UNCHANGED <<images, projectVideos, submitting, otherThanProjectForm>>

\* setImages(Array.from(e.target.files))
handleImageChange ==
    /\ Shown("projects")
    /\ \E q \in FileLists(ImageFiles) : images' = q
    /\ UNCHANGED <<projectFields, projectVideos, submitting, otherThanProjectForm>>
\* setImages(images.filter((_, i) => i !== index))
removeImage ==
    /\ Shown("projects")
    /\ \E index \in 0..(Len(images) - 1) : images' = RemoveAt(images, index)
    /\ UNCHANGED <<projectFields, projectVideos, submitting, otherThanProjectForm>>
\* setProjectVideos(e.target.files ? Array.from(e.target.files) : [])
setProjectVideos ==
    /\ Shown("projects")
    /\ \E q \in FileLists(VideoFiles) : projectVideos' = q
    /\ UNCHANGED <<projectFields, images, submitting, otherThanProjectForm>>
\* setProjectVideos(projectVideos.filter((_, i) => i !== index))
removeProjectVideo ==
    /\ Shown("projects")
    /\ \E index \in 0..(Len(projectVideos) - 1) :
           projectVideos' = RemoveAt(projectVideos, index)
    /\ UNCHANGED <<projectFields, images, submitting, otherThanProjectForm>>

(***************************************************************************)
(* handleSubmit: validate, insert the project, upload the images and the   *)
(* videos one after the other, then reset the form and refresh the list.   *)
(***************************************************************************)
\* a submit button that stays enabled during a submission
NeverDisabled == FALSE
\* <Button type="submit" disabled={submitting}>
SubmitDisabled == submitting
\* a loop that marks every image as the primary one
EveryImagePrimary(i) == TRUE
\* is_primary: i === 0
IsPrimary(i) == i = 0
\* display_order: i
DisplayOrder(i) == i

\* the argument of projectSchema.parse
ProjectInput ==
    [title |-> trim(title), description |-> trim(description),
     category |-> trim(category),
     location |-> IF Truthy(trim(location)) THEN trim(location) ELSE Undefined,
     year_completed |-> IF yearCompleted.kind # "empty"
                        THEN parseInt(yearCompleted) ELSE NoNum]
\* projectData: location and year_completed are set only when truthy
ProjectData(v) ==
    [title |-> v.title, description |-> v.description, category |-> v.category,
     location |-> IF v.location # Undefined /\ Truthy(v.location)
                  THEN v.location ELSE Undefined,
     year_completed |-> IF v.year_completed.kind = "number" /\ v.year_completed.val # 0
                        THEN v.year_completed ELSE NoNum]

\* a creation that takes the videos as done without uploading any
VideosSkipped(c, i) == [c EXCEPT !.pc = "done", !.i = i]

\* the loops of a creation: images first, then videos, each file an upload
\* followed by the insert of its row
VideosLoop(c, i) ==
    IF i < Len(c.videos)
    THEN [c EXCEPT !.pc = "video_upload", !.i = i,
             !.reqs = Append(@, Request("upload", "video", c.videos[i + 1]))]
    ELSE [c EXCEPT !.pc = "done", !.i = i]
ImagesLoop(c, i) ==
    IF i < Len(c.images)
    THEN [c EXCEPT !.pc = "image_upload", !.i = i,
             !.reqs = Append(@, Request("upload", "image", c.images[i + 1]))]
    ELSE VideosLoop(c, 0)
\* a loop that issues the upload of the next file together with the insert
RowRequestedWithNextUpload(c, publicUrl, kind) ==
    [c EXCEPT !.pc = kind, !.url = publicUrl, !.urls = Append(@, publicUrl),
              !.reqs = @ \o <<Request("insert", kind, c.i),
                              Request("upload", "image", c.i + 1)>>]

\* the upload has answered: getPublicUrl(filePath), then the insert of the row
RowRequested(c, publicUrl, kind) ==
    [c EXCEPT !.pc = kind, !.url = publicUrl, !.urls = Append(@, publicUrl),
              !.reqs = Append(@, Request("insert", kind, c.i))]

\* the click on "Create Project"
handleSubmit ==
    /\ Shown("projects")
    /\ ~SubmitDisabled
    /\ Len(submitCalls) < MaxCalls
    /\ Len(deleteCalls) + Fetching("projects") < MaxPending
    /\ nextId <= MaxId
    /\ uploads + Len(images) + Len(projectVideos) <= MaxObjects
    /\ IF projectSchemaOK(ProjectInput)
       THEN /\ submitting' = TRUE
            /\ submitCalls' = Append(submitCalls,
                   [pc |-> "projects",
                    data |-> ProjectData(projectSchemaParse(ProjectInput)),
                    images |-> images, videos |-> projectVideos,
                    i |-> 0, id |-> 0, url |-> NoObject, urls |-> <<>>,
                    reqs |-> <<Request("insert", "projects", 0)>>])
            /\ UNCHANGED toast
       ELSE \* catch: toast; finally: setSubmitting(false)
            /\ submitting' = FALSE
            /\ toast' = Toast("Error", "validation")
            /\ UNCHANGED submitCalls
    /\ UNCHANGED <<backendVars, listVars, projectFields, images, projectVideos,
                   serviceFormVars, galleryFormVars, pageVars, serviceSubmitCalls,
                   gallerySubmitCalls, deleteCalls, fetchCalls>>

\* the rest of handleSubmit after an await that did not fail: c is the call
\* with its next request issued, or at "done" when nothing is left to do
SubmitGoesOn(k, c) ==
    IF c.pc = "done"
    THEN /\ toast' = Toast("Success", "Project created successfully")
         /\ title' = Empty
         /\ description' = Empty
         /\ category' = Empty
         /\ location' = Empty
         /\ yearCompleted' = NoYear
         /\ images' = <<>>
         /\ projectVideos' = <<>>
         /\ fetchCalls' = Append(fetchCalls, Sent("projects"))
         /\ submitting' = FALSE
         /\ submitCalls' = RemoveAt(submitCalls, k - 1)
    ELSE /\ submitCalls' = [submitCalls EXCEPT ![k] = c]
         /\ UNCHANGED <<projectFormVars, fetchCalls, toast>>

\* a loop that skips the file whose request failed and goes on with the next
SubmitSkipsFile(k, c) ==
    SubmitGoesOn(k, IF c.pc \in {"video_upload", "project_videos"}
                    THEN VideosLoop(c, c.i + 1) ELSE ImagesLoop(c, c.i + 1))

\* a catch with no finally after it
SubmitFailsNoFinally(k, c) ==
    /\ toast' = Toast("Error", "error.message")
    /\ submitCalls' = RemoveAt(submitCalls, k - 1)
    /\ UNCHANGED <<projectFields, images, projectVideos, fetchCalls, submitting>>

\* catch (error) { toast } finally { setSubmitting(false) }
SubmitFails(k, c) ==
    /\ toast' = Toast("Error", "error.message")
    /\ submitting' = FALSE
    /\ submitCalls' = RemoveAt(submitCalls, k - 1)
    /\ UNCHANGED <<projectFields, images, projectVideos, fetchCalls>>

otherThanSubmit == <<serviceFormVars, galleryFormVars, pageVars, serviceSubmitCalls,
                     gallerySubmitCalls, deleteCalls>>

\* from("projects").insert([projectData]).select().single() answers
ProjectInserted ==
    \E k \in 1..Len(submitCalls), ok \in BOOLEAN :
        LET c == submitCalls[k] IN
        /\ c.pc = "projects"
        /\ IF ok
           THEN /\ db' = Insert("projects", [id |-> nextId] @@ c.data)
                /\ nextId' = nextId + 1
                /\ SubmitGoesOn(k, ImagesLoop([c EXCEPT !.id = nextId], 0))
           ELSE /\ SubmitFails(k, c)
                /\ UNCHANGED <<db, nextId>>
        /\ UNCHANGED <<storage, uploads, listVars, otherThanSubmit>>

\* storage.from('project-images').upload(filePath, file) answers (image loop)
ProjectImageUploaded ==
    \E k \in 1..Len(submitCalls), ok \in BOOLEAN :
        LET c == submitCalls[k] IN
        /\ c.pc = "image_upload"
        /\ IF ok
           THEN /\ storage' = storage \cup
                       {Object("project-images", c.id, c.images[c.i + 1])}
                /\ uploads' = uploads + 1
                /\ SubmitGoesOn(k, RowRequested(c,
                       Object("project-images", c.id, c.images[c.i + 1]),
                       "project_images"))
           ELSE /\ SubmitFails(k, c)
                /\ UNCHANGED <<storage, uploads>>
        /\ UNCHANGED <<db, nextId, listVars, otherThanSubmit>>

\* from('project_images').insert([...]) answers
ProjectImageInserted ==
    \E k \in 1..Len(submitCalls), ok \in BOOLEAN :
        LET c == submitCalls[k] IN
        /\ c.pc = "project_images"
        /\ IF ok
           THEN /\ db' = Insert("project_images",
                       [parent |-> c.id,
                        url |-> c.url,
                        is_primary |-> IsPrimary(c.i),
                        display_order |-> DisplayOrder(c.i)])
                /\ SubmitGoesOn(k, ImagesLoop(c, c.i + 1))
           ELSE /\ SubmitFails(k, c)
                /\ UNCHANGED db
        /\ UNCHANGED <<storage, uploads, nextId, listVars, otherThanSubmit>>

\* storage.from('project-images').upload(filePath, file) answers (video loop)
ProjectVideoUploaded ==
    \E k \in 1..Len(submitCalls), ok \in BOOLEAN :
        LET c == submitCalls[k] IN
        /\ c.pc = "video_upload"
        /\ IF ok
           THEN /\ storage' = storage \cup
                       {Object("project-images", c.id, c.videos[c.i + 1])}
                /\ uploads' = uploads + 1
                /\ SubmitGoesOn(k, RowRequested(c,
                       Object("project-images", c.id, c.videos[c.i + 1]),
                       "project_videos"))
           ELSE /\ SubmitFails(k, c)
                /\ UNCHANGED <<storage, uploads>>
        /\ UNCHANGED <<db, nextId, listVars, otherThanSubmit>>

\* from('project_videos').insert([...]) answers
ProjectVideoInserted ==
    \E k \in 1..Len(submitCalls), ok \in BOOLEAN :
        LET c == submitCalls[k] IN
        /\ c.pc = "project_videos"
        /\ IF ok
           THEN /\ db' = Insert("project_videos",
                       [parent |-> c.id, url |-> c.url,
                        display_order |-> DisplayOrder(c.i)])
                /\ SubmitGoesOn(k, VideosLoop(c, c.i + 1))
           ELSE /\ SubmitFails(k, c)
                /\ UNCHANGED db
        /\ UNCHANGED <<storage, uploads, nextId, listVars, otherThanSubmit>>

(***************************************************************************)
(* serviceSchema and the service form.                                     *)
(***************************************************************************)
ServiceTitleMax == 200
SlugMax == 200
ShortDescriptionMax == 500
IconMax == 100

serviceSchemaOK(in) ==
    /\ RequiredString(in.title, ServiceTitleMax)
    /\ RequiredString(in.slug, SlugMax)
    /\ OptionalString(in.short_description, ShortDescriptionMax)
    /\ trim(in.description).len >= 1
    /\ OptionalString(in.icon, IconMax)

serviceSchemaParse(in) ==
    [title |-> trim(in.title), slug |-> trim(in.slug),
     short_description |-> IF in.short_description = Undefined THEN Undefined
                           ELSE trim(in.short_description),
     description |-> trim(in.description),
     icon |-> IF in.icon = Undefined THEN Undefined ELSE trim(in.icon)]

otherThanServiceForm == <<backendVars, listVars, projectFormVars, galleryFormVars,
                          pageVars, callVars, fetchCalls, toast>>

\* onChange={(e) => setServiceTitle(e.target.value)} and the like
typeService(T, S, SD, D, I) ==
    /\ Shown("services")
    /\ \E t \in T, sl \in S, sd \in SD, d \in D, ic \in I :
           /\ serviceTitle' = t
           /\ serviceSlug' = sl
           /\ serviceShortDesc' = sd
           /\ serviceDescription' = d
           /\ serviceIcon' = ic
    /\ UNCHANGED <<serviceImages, serviceVideos, editingService, serviceSubmitting,
                   otherThanServiceForm>>

\* {!editingService && (<> the two file inputs </>)}
MediaInputsShown == editingService = 0

\* setServiceImages(Array.from(e.target.files))
handleServiceImageChange ==
    /\ Shown("services")
    /\ MediaInputsShown
    /\ \E q \in FileLists(ImageFiles) : serviceImages' = q
    /\ UNCHANGED <<serviceFields, serviceVideos, editingService, serviceSubmitting,
                   otherThanServiceForm>>
\* setServiceImages(serviceImages.filter((_, i) => i !== index))
removeServiceImage ==
    /\ Shown("services")
    /\ MediaInputsShown
    /\ \E index \in 0..(Len(serviceImages) - 1) :
           serviceImages' = RemoveAt(serviceImages, index)
    /\ UNCHANGED <<serviceFields, serviceVideos, editingService, serviceSubmitting,
                   otherThanServiceForm>>
\* setServiceVideos(e.target.files ? Array.from(e.target.files) : [])
setServiceVideos ==
    /\ Shown("services")
    /\ MediaInputsShown
    /\ \E q \in FileLists(VideoFiles) : serviceVideos' = q
    /\ UNCHANGED <<serviceFields, serviceImages, editingService, serviceSubmitting,
                   otherThanServiceForm>>
\* setServiceVideos(serviceVideos.filter((_, i) => i !== index))
removeServiceVideo ==
    /\ Shown("services")
    /\ MediaInputsShown
    /\ \E index \in 0..(Len(serviceVideos) - 1) :
           serviceVideos' = RemoveAt(serviceVideos, index)
    /\ UNCHANGED <<serviceFields, serviceImages, editingService, serviceSubmitting,
                   otherThanServiceForm>>

\* x || "" for a column that may be null
OrEmpty(x) == IF x = Null \/ x = Undefined THEN Empty ELSE x

\* the pencil button of a service of the list
editService ==
    /\ Shown("services")
    /\ \E k \in 1..Len(services) :
           LET service == services[k] IN
           /\ editingService' = service.id
           /\ serviceTitle' = service.title
           /\ serviceSlug' = service.slug
           /\ serviceShortDesc' = OrEmpty(service.short_description)
           /\ serviceDescription' = service.description
           /\ serviceIcon' = OrEmpty(service.icon)
    /\ UNCHANGED <<serviceImages, serviceVideos, serviceSubmitting,
                   otherThanServiceForm>>

\* a reset that leaves edit mode and keeps what the fields hold
OnlyEditingReset ==
    /\ editingService' = 0
    /\ UNCHANGED <<serviceFields, serviceImages, serviceVideos>>
\* the state cancelEditService sets
ServiceFormReset ==
    /\ editingService' = 0
    /\ serviceTitle' = Empty
    /\ serviceSlug' = Empty
    /\ serviceShortDesc' = Empty
    /\ serviceDescription' = Empty
    /\ serviceIcon' = Empty
    /\ serviceImages' = <<>>
    /\ UNCHANGED serviceVideos

\* {editingService && (<Button onClick={cancelEditService}>Cancel</Button>)}
CancelShown == editingService # 0

\* the Cancel button
cancelEditService ==
    /\ Shown("services")
    /\ CancelShown
    /\ ServiceFormReset
    /\ UNCHANGED <<serviceSubmitting, otherThanServiceForm>>

(***************************************************************************)
(* handleServiceSubmit: validate, then update the service being edited or  *)
(* insert a new one and upload its images and videos; on success           *)
(* cancelEditService() and fetchServices().                                *)
(***************************************************************************)
\* <Button type="submit" disabled={serviceSubmitting}>
ServiceSubmitDisabled == serviceSubmitting

\* the argument of serviceSchema.parse
ServiceInput ==
    [title |-> trim(serviceTitle), slug |-> trim(serviceSlug),
     short_description |-> IF Truthy(trim(serviceShortDesc))
                           THEN trim(serviceShortDesc) ELSE Undefined,
     description |-> trim(serviceDescription),
     icon |-> IF Truthy(trim(serviceIcon)) THEN trim(serviceIcon) ELSE Undefined]
\* serviceData: short_description and icon are set only when truthy
ServiceData(v) ==
    [title |-> v.title, slug |-> v.slug, description |-> v.description,
     short_description |-> IF v.short_description # Undefined /\ Truthy(v.short_description)
                           THEN v.short_description ELSE Undefined,
     icon |-> IF v.icon # Undefined /\ Truthy(v.icon) THEN v.icon ELSE Undefined]

\* the services table rejects a slug another row holds
SlugTaken(slug, id) == \E r \in db["services"] : r.slug = slug /\ r.id # id
\* a column left out of an insert is null
OrNull(x) == IF x = Undefined THEN Null ELSE x
NewService(id, data) ==
    [id |-> id, title |-> data.title, slug |-> data.slug,
     description |-> data.description,
     short_description |-> OrNull(data.short_description),
     icon |-> OrNull(data.icon), is_active |-> TRUE]
\* an update that writes null into the columns the payload leaves out
UpdateClearsOmitted(r, data) ==
    [r EXCEPT !.title = data.title, !.slug = data.slug,
              !.description = data.description,
              !.short_description = OrNull(data.short_description),
              !.icon = OrNull(data.icon)]
\* update(serviceData): a column left out of the update keeps its value
UpdatedService(r, data) ==
    [r EXCEPT !.title = data.title, !.slug = data.slug,
              !.description = data.description,
              !.short_description = IF data.short_description = Undefined
                                    THEN @ ELSE data.short_description,
              !.icon = IF data.icon = Undefined THEN @ ELSE data.icon]

\* the click on "Add Service" / "Update Service"
handleServiceSubmit ==
    /\ Shown("services")
    /\ ~ServiceSubmitDisabled
    /\ Len(serviceSubmitCalls) < MaxCalls
    /\ Len(deleteCalls) + Fetching("services") < MaxPending
    /\ nextId <= MaxId
    /\ uploads + Len(serviceImages) + Len(serviceVideos) <= MaxObjects
    /\ LET call == [pc |-> IF editingService # 0 THEN "update" ELSE "services",
                    data |-> ServiceInput, editing |-> editingService,
                    fields |-> serviceFields,
                    images |-> serviceImages, videos |-> serviceVideos,
                    i |-> 0, id |-> 0, url |-> NoObject, urls |-> <<>>,
                    reqs |-> <<Request(IF editingService # 0 THEN "update"
                                       ELSE "insert", "services", editingService)>>]
       IN
       IF serviceSchemaOK(ServiceInput)
       THEN /\ serviceSubmitting' = TRUE
            /\ serviceSubmitCalls' = Append(serviceSubmitCalls,
                   [call EXCEPT !.data = ServiceData(serviceSchemaParse(ServiceInput))])
            /\ UNCHANGED toast
       ELSE \* catch: toast; finally: setServiceSubmitting(false)
            /\ serviceSubmitting' = FALSE
            /\ toast' = Toast("Error", "validation")
            /\ UNCHANGED serviceSubmitCalls
    /\ UNCHANGED <<backendVars, listVars, projectFormVars, galleryFormVars,
                   serviceFields, serviceImages, serviceVideos, editingService, pageVars,
                   submitCalls, gallerySubmitCalls, deleteCalls, fetchCalls>>

\* the end of the try block: toast, cancelEditService(), fetchServices();
\* finally setServiceSubmitting(false)
ServiceSubmitSucceeds(k, c, message) ==
    /\ toast' = Toast("Success", message)
    /\ ServiceFormReset
    /\ fetchCalls' = Append(fetchCalls, Sent("services"))
    /\ serviceSubmitting' = FALSE
    /\ serviceSubmitCalls' = RemoveAt(serviceSubmitCalls, k - 1)

\* the rest of a creation after an await that did not fail
ServiceSubmitGoesOn(k, c) ==
    IF c.pc = "done"
    THEN ServiceSubmitSucceeds(k, c, "Service created successfully")
    ELSE /\ serviceSubmitCalls' = [serviceSubmitCalls EXCEPT ![k] = c]
         /\ UNCHANGED <<serviceFormVars, fetchCalls, toast>>

\* a catch that also resets the form
ServiceSubmitFailsAndResets(k, c) ==
    /\ toast' = Toast("Error", "error.message")
    /\ serviceSubmitting' = FALSE
    /\ serviceSubmitCalls' = RemoveAt(serviceSubmitCalls, k - 1)
    /\ ServiceFormReset
    /\ UNCHANGED fetchCalls

\* catch (error) { toast } finally { setServiceSubmitting(false) }
ServiceSubmitFails(k, c) ==
    /\ toast' = Toast("Error", "error.message")
    /\ serviceSubmitting' = FALSE
    /\ serviceSubmitCalls' = RemoveAt(serviceSubmitCalls, k - 1)
    /\ UNCHANGED <<serviceFields, serviceImages, serviceVideos, editingService,
                   fetchCalls>>

otherThanServiceSubmit == <<listVars, projectFormVars, galleryFormVars, pageVars,
                            submitCalls, gallerySubmitCalls, deleteCalls>>

\* an update that reads the service being edited when the answer arrives
ServiceUpdatedForCurrent ==
    \E k \in 1..Len(serviceSubmitCalls), ok \in BOOLEAN :
        LET c == serviceSubmitCalls[k] IN
        /\ c.pc = "update"
        /\ IF ok /\ ~SlugTaken(c.data.slug, c.editing)
           THEN /\ db' = [db EXCEPT !["services"] =
                       {IF r.id = editingService THEN UpdatedService(r, c.data) ELSE r :
                            r \in @}]
                /\ ServiceSubmitSucceeds(k, c, "Service updated successfully")
           ELSE /\ ServiceSubmitFails(k, c)
                /\ UNCHANGED db
        /\ UNCHANGED <<storage, nextId, uploads, otherThanServiceSubmit>>

\* an update that goes on to the media loops of a creation
ServiceUpdatedThenUploads ==
    \E k \in 1..Len(serviceSubmitCalls), ok \in BOOLEAN :
        LET c == serviceSubmitCalls[k] IN
        /\ c.pc = "update"
        /\ IF ok /\ ~SlugTaken(c.data.slug, c.editing)
           THEN /\ db' = [db EXCEPT !["services"] =
                       {IF r.id = c.editing THEN UpdatedService(r, c.data) ELSE r :
                            r \in @}]
                /\ ServiceSubmitGoesOn(k, ImagesLoop([c EXCEPT !.id = c.editing], 0))
           ELSE /\ ServiceSubmitFails(k, c)
                /\ UNCHANGED db
        /\ UNCHANGED <<storage, nextId, uploads, otherThanServiceSubmit>>

\* from("services").update(serviceData).eq("id", editingService) answers
ServiceUpdated ==
    \E k \in 1..Len(serviceSubmitCalls), ok \in BOOLEAN :
        LET c == serviceSubmitCalls[k] IN
        /\ c.pc = "update"
        /\ IF ok /\ ~SlugTaken(c.data.slug, c.editing)
           THEN /\ db' = [db EXCEPT !["services"] =
                       {IF r.id = c.editing THEN UpdatedService(r, c.data) ELSE r :
                            r \in @}]
                /\ ServiceSubmitSucceeds(k, c, "Service updated successfully")
           ELSE /\ ServiceSubmitFails(k, c)
                /\ UNCHANGED db
        /\ UNCHANGED <<storage, nextId, uploads, otherThanServiceSubmit>>

\* from("services").insert([serviceData]).select().single() answers
ServiceInserted ==
    \E k \in 1..Len(serviceSubmitCalls), ok \in BOOLEAN :
        LET c == serviceSubmitCalls[k] IN
        /\ c.pc = "services"
        /\ IF ok /\ ~SlugTaken(c.data.slug, 0)
           THEN /\ db' = Insert("services", NewService(nextId, c.data))
                /\ nextId' = nextId + 1
                /\ ServiceSubmitGoesOn(k, ImagesLoop([c EXCEPT !.id = nextId], 0))
           ELSE /\ ServiceSubmitFails(k, c)
                /\ UNCHANGED <<db, nextId>>
        /\ UNCHANGED <<storage, uploads, otherThanServiceSubmit>>

\* storage.from('service-images').upload(filePath, file) answers (image loop)
ServiceImageUploaded ==
    \E k \in 1..Len(serviceSubmitCalls), ok \in BOOLEAN :
        LET c == serviceSubmitCalls[k] IN
        /\ c.pc = "image_upload"
        /\ IF ok
           THEN /\ storage' = storage \cup
                       {Object("service-images", c.id, c.images[c.i + 1])}
                /\ uploads' = uploads + 1
                /\ ServiceSubmitGoesOn(k, RowRequested(c,
                       Object("service-images", c.id, c.images[c.i + 1]),
                       "service_images"))
           ELSE /\ ServiceSubmitFails(k, c)
                /\ UNCHANGED <<storage, uploads>>
        /\ UNCHANGED <<db, nextId, otherThanServiceSubmit>>

\* from('service_images').insert([...]) answers
ServiceImageInserted ==
    \E k \in 1..Len(serviceSubmitCalls), ok \in BOOLEAN :
        LET c == serviceSubmitCalls[k] IN
        /\ c.pc = "service_images"
        /\ IF ok
           THEN /\ db' = Insert("service_images",
                       [parent |-> c.id, url |-> c.url,
                        is_primary |-> IsPrimary(c.i),
                        display_order |-> DisplayOrder(c.i)])
                /\ ServiceSubmitGoesOn(k, ImagesLoop(c, c.i + 1))
           ELSE /\ ServiceSubmitFails(k, c)
                /\ UNCHANGED db
        /\ UNCHANGED <<storage, uploads, nextId, otherThanServiceSubmit>>

\* storage.from('service-images').upload(filePath, file) answers (video loop)
ServiceVideoUploaded ==
    \E k \in 1..Len(serviceSubmitCalls), ok \in BOOLEAN :
        LET c == serviceSubmitCalls[k] IN
        /\ c.pc = "video_upload"
        /\ IF ok
           THEN /\ storage' = storage \cup
                       {Object("service-images", c.id, c.videos[c.i + 1])}
                /\ uploads' = uploads + 1
                /\ ServiceSubmitGoesOn(k, RowRequested(c,
                       Object("service-images", c.id, c.videos[c.i + 1]),
                       "service_videos"))
           ELSE /\ ServiceSubmitFails(k, c)
                /\ UNCHANGED <<storage, uploads>>
        /\ UNCHANGED <<db, nextId, otherThanServiceSubmit>>

\* from('service_videos').insert([...]) answers
ServiceVideoInserted ==
    \E k \in 1..Len(serviceSubmitCalls), ok \in BOOLEAN :
        LET c == serviceSubmitCalls[k] IN
        /\ c.pc = "service_videos"
        /\ IF ok
           THEN /\ db' = Insert("service_videos",
                       [parent |-> c.id, url |-> c.url,
                        display_order |-> DisplayOrder(c.i)])
                /\ ServiceSubmitGoesOn(k, VideosLoop(c, c.i + 1))
           ELSE /\ ServiceSubmitFails(k, c)
                /\ UNCHANGED db
        /\ UNCHANGED <<storage, uploads, nextId, otherThanServiceSubmit>>

(***************************************************************************)
(* gallerySchema and the gallery form.                                     *)
(***************************************************************************)
GalleryTitleMax == 200
GalleryDescriptionMax == 500
GalleryCategoryMax == 100
Team == Text(4, 0, "team")

gallerySchemaOK(in) ==
    /\ OptionalString(in.title, GalleryTitleMax)
    /\ OptionalString(in.description, GalleryDescriptionMax)
    /\ RequiredString(in.category, GalleryCategoryMax)

gallerySchemaParse(in) ==
    [title |-> IF in.title = Undefined THEN Undefined ELSE trim(in.title),
     description |-> IF in.description = Undefined THEN Undefined
                     ELSE trim(in.description),
     category |-> trim(in.category)]

otherThanGalleryForm == <<backendVars, listVars, projectFormVars, serviceFormVars,
                          pageVars, callVars, fetchCalls, toast>>

\* the text inputs and the category select of the gallery form
typeGallery(T, D, C, U) ==
    /\ Shown("gallery")
    /\ \E t \in T, d \in D, c \in C, u \in U :
           /\ galleryTitle' = t
           /\ galleryDescription' = d
           /\ galleryCategory' = c
           /\ galleryVideoUrl' = IF galleryMediaType = "video" THEN u
                                 ELSE galleryVideoUrl
    /\ UNCHANGED <<galleryMediaType, galleryImages, gallerySubmitting,
                   otherThanGalleryForm>>

\* <Select value={galleryMediaType} onValueChange={setGalleryMediaType}>
setGalleryMediaType ==
    /\ Shown("gallery")
    /\ \E v \in {"image", "video"} : galleryMediaType' = v
    /\ UNCHANGED <<galleryTitle, galleryDescription, galleryCategory,
                   galleryVideoUrl, galleryImages, gallerySubmitting,
                   otherThanGalleryForm>>

\* setGalleryImages(e.target.files ? Array.from(e.target.files) : [])
setGalleryImages ==
    /\ Shown("gallery")
    /\ galleryMediaType = "image"
    /\ \E q \in FileLists(ImageFiles) : galleryImages' = q
    /\ UNCHANGED <<galleryFields, gallerySubmitting, otherThanGalleryForm>>
\* setGalleryImages(galleryImages.filter((_, i) => i !== index))
removeGalleryImage ==
    /\ Shown("gallery")
    /\ galleryMediaType = "image"
    /\ \E index \in 0..(Len(galleryImages) - 1) :
           galleryImages' = RemoveAt(galleryImages, index)
    /\ UNCHANGED <<galleryFields, gallerySubmitting, otherThanGalleryForm>>

(***************************************************************************)
(* handleGallerySubmit: the two pre-checks, the validation, then one       *)
(* upload and one row per image, or one row for a video URL.               *)
(***************************************************************************)
\* <Button type="submit" disabled={gallerySubmitting}>
GallerySubmitDisabled == gallerySubmitting

GalleryInput ==
    [title |-> IF Truthy(trim(galleryTitle)) THEN trim(galleryTitle) ELSE Undefined,
     description |-> IF Truthy(trim(galleryDescription))
                     THEN trim(galleryDescription) ELSE Undefined,
     category |-> galleryCategory]
\* validated.title || null
OrNullRow(x) == IF x = Undefined \/ ~Truthy(x) THEN Null ELSE x
\* a row that is an image row whatever the mode of the submission
GalleryRowAsImage(id, c) ==
    [id |-> id, image_url |-> c.url, video_url |-> Null,
     title |-> OrNullRow(c.data.title),
     description |-> OrNullRow(c.data.description),
     category |-> c.data.category, media_type |-> "image"]
\* the row as the page sends it: no display_order among its fields, the
\* column is left to the table's default
GalleryRow(id, c) ==
    [id |-> id,
     image_url |-> IF c.mode = "image" THEN c.url ELSE NoObject,
     video_url |-> IF c.mode = "video" THEN c.videoUrl ELSE Null,
     title |-> OrNullRow(c.data.title),
     description |-> OrNullRow(c.data.description),
     category |-> c.data.category, media_type |-> c.mode]

\* the next image of the for-of loop, or the end of it
GalleryLoop(c, i) ==
    IF i < Len(c.images)
    THEN [c EXCEPT !.pc = "image_upload", !.i = i,
             !.reqs = Append(@, Request("upload", "image", c.images[i + 1]))]
    ELSE [c EXCEPT !.pc = "done", !.i = i]

\* the click on "Upload" / "Add Video"
handleGallerySubmit ==
    /\ Shown("gallery")
    /\ ~GallerySubmitDisabled
    /\ Len(gallerySubmitCalls) < MaxCalls
    /\ Len(deleteCalls) + Fetching("galleryItems") < MaxPending
    /\ nextId <= MaxRows
    /\ uploads + Len(galleryImages) <= MaxObjects
    /\ UNCHANGED <<backendVars, listVars, projectFormVars, serviceFormVars,
                   galleryFields, galleryImages, pageVars, submitCalls,
                   serviceSubmitCalls, deleteCalls, fetchCalls>>
    /\ IF galleryMediaType = "image" /\ Len(galleryImages) = 0
       THEN /\ toast' = Toast("Error", "Please select at least one image")
            /\ UNCHANGED <<gallerySubmitting, gallerySubmitCalls>>
       ELSE IF galleryMediaType = "video" /\ ~Truthy(trim(galleryVideoUrl))
       THEN /\ toast' = Toast("Error", "Please enter a video URL")
            /\ UNCHANGED <<gallerySubmitting, gallerySubmitCalls>>
       ELSE IF ~gallerySchemaOK(GalleryInput)
       THEN \* catch: toast; finally: setGallerySubmitting(false)
            /\ toast' = Toast("Error", "validation")
            /\ gallerySubmitting' = FALSE
            /\ UNCHANGED gallerySubmitCalls
       ELSE LET call == [pc |-> "video", data |-> gallerySchemaParse(GalleryInput),
                         mode |-> galleryMediaType, images |-> galleryImages,
                         videoUrl |-> trim(galleryVideoUrl), i |-> 0,
                         url |-> NoObject, urls |-> <<>>,
                         reqs |-> <<Request("insert", "gallery", 0)>>]
            IN
            /\ gallerySubmitting' = TRUE
            /\ gallerySubmitCalls' = Append(gallerySubmitCalls,
                   IF galleryMediaType = "image"
                   THEN GalleryLoop([call EXCEPT !.reqs = <<>>], 0) ELSE call)
            /\ UNCHANGED toast

\* the end of the try block and the finally
GallerySubmitSucceeds(k, message) ==
    /\ toast' = Toast("Success", message)
    /\ galleryTitle' = Empty
    /\ galleryDescription' = Empty
    /\ galleryCategory' = Team
    /\ galleryImages' = <<>>
    /\ galleryVideoUrl' = Empty
    /\ galleryMediaType' = "image"
    /\ fetchCalls' = Append(fetchCalls, Sent("galleryItems"))
    /\ gallerySubmitting' = FALSE
    /\ gallerySubmitCalls' = RemoveAt(gallerySubmitCalls, k - 1)

GallerySubmitGoesOn(k, c) ==
    IF c.pc = "done"
    THEN GallerySubmitSucceeds(k, "images uploaded successfully")
    ELSE /\ gallerySubmitCalls' = [gallerySubmitCalls EXCEPT ![k] = c]
         /\ UNCHANGED <<galleryFormVars, fetchCalls, toast>>

\* a loop that skips the image whose request failed and goes on with the next
GallerySubmitSkipsFile(k) ==
    GallerySubmitGoesOn(k, GalleryLoop(gallerySubmitCalls[k],
                                       gallerySubmitCalls[k].i + 1))

\* catch (error) { toast } finally { setGallerySubmitting(false) }
GallerySubmitFails(k) ==
    /\ toast' = Toast("Error", "error.message")
    /\ gallerySubmitting' = FALSE
    /\ gallerySubmitCalls' = RemoveAt(gallerySubmitCalls, k - 1)
    /\ UNCHANGED <<galleryFields, galleryImages, fetchCalls>>

otherThanGallerySubmit == <<listVars, projectFormVars, serviceFormVars, pageVars,
                            submitCalls, serviceSubmitCalls, deleteCalls>>

\* storage.from('gallery-images').upload(filePath, image) answers
GalleryImageUploaded ==
    \E k \in 1..Len(gallerySubmitCalls), ok \in BOOLEAN :
        LET c == gallerySubmitCalls[k] IN
        /\ c.pc = "image_upload"
        /\ IF ok
           THEN /\ storage' = storage \cup
                       {Object("gallery-images", 0, c.images[c.i + 1])}
                /\ uploads' = uploads + 1
                /\ GallerySubmitGoesOn(k, RowRequested(c,
                       Object("gallery-images", 0, c.images[c.i + 1]),
                       "gallery"))
           ELSE /\ GallerySubmitFails(k)
                /\ UNCHANGED <<storage, uploads>>
        /\ UNCHANGED <<db, nextId, otherThanGallerySubmit>>

\* from('gallery').insert([{image_url: publicUrl, ...}]) answers
GalleryImageInserted ==
    \E k \in 1..Len(gallerySubmitCalls), ok \in BOOLEAN :
        LET c == gallerySubmitCalls[k] IN
        /\ c.pc = "gallery"
        /\ IF ok /\ nextId <= MaxRows
           THEN /\ db' = Insert("gallery", GalleryRow(nextId, c))
                /\ nextId' = nextId + 1
                /\ GallerySubmitGoesOn(k, GalleryLoop(c, c.i + 1))
           ELSE /\ GallerySubmitFails(k)
                /\ UNCHANGED <<db, nextId>>
        /\ UNCHANGED <<storage, uploads, otherThanGallerySubmit>>

\* from('gallery').insert([{image_url: null, video_url: ...}]) answers
GalleryVideoInserted ==
    \E k \in 1..Len(gallerySubmitCalls), ok \in BOOLEAN :
        LET c == gallerySubmitCalls[k] IN
        /\ c.pc = "video"
        /\ IF ok
           THEN /\ db' = Insert("gallery", GalleryRow(nextId, c))
                /\ nextId' = nextId + 1
                /\ GallerySubmitSucceeds(k, "Video added successfully")
           ELSE /\ GallerySubmitFails(k)
                /\ UNCHANGED <<db, nextId>>
        /\ UNCHANGED <<storage, uploads, otherThanGallerySubmit>>

(***************************************************************************)
(* deleteGalleryItem, deleteProject, deleteService.                        *)
(***************************************************************************)
otherThanDelete == <<listVars, formVars, submitCalls, serviceSubmitCalls,
                     gallerySubmitCalls>>
\* a delete handler in flight: the request it awaits (pc), its arguments and
\* the requests it has issued so far
DeleteCall(coll, pc, id, url) ==
    [coll |-> coll, pc |-> pc, id |-> id, url |-> url,
     reqs |-> <<Request(pc, coll, id)>>]
\* the bound of a run on the deletes and refreshes in flight
MayDelete(coll) ==
    /\ Len(deleteCalls) < MaxCalls
    /\ Len(deleteCalls) + Len(submitCalls) + Len(serviceSubmitCalls)
         + Len(gallerySubmitCalls) + Fetching(coll) < MaxFetch

\* if (imageUrl) { const filePath = imageUrl.split('/').pop(); if (filePath) ...
HasFile(imageUrl) == imageUrl # NoObject
\* the objects remove([filePath]) names: the last segment of the URL
LastSegment(imageUrl) ==
    {o \in storage : /\ o.bucket = "gallery-images" /\ o.dir = 0
                     /\ o.file = imageUrl.file /\ o.name = imageUrl.name}

\* a dialog that lets every answer through
NeverDeclined(confirm) == FALSE
\* if (!confirm("Are you sure ...")) return;
Declined(confirm) == ~confirm

\* the Delete button of a gallery item; confirm is the operator's answer to
\* the dialog
deleteGalleryItemWith(confirm) ==
    /\ Shown("gallery")
    /\ MayDelete("galleryItems")
    /\ \E k \in 1..Len(galleryItems) :
           LET item == galleryItems[k] IN
           IF Declined(confirm)
           THEN UNCHANGED deleteCalls
           ELSE deleteCalls' = Append(deleteCalls,
                    DeleteCall("galleryItems",
                               IF HasFile(item.image_url) THEN "remove" ELSE "delete",
                               item.id, item.image_url))
    /\ UNCHANGED <<backendVars, otherThanDelete, fetchCalls, toast>>
deleteGalleryItem == \E confirm \in BOOLEAN : deleteGalleryItemWith(confirm)

\* a catch that also refreshes the list
DeleteThrowsAndRefreshes(k) ==
    /\ toast' = Toast("Error", "error.message")
    /\ deleteCalls' = RemoveAt(deleteCalls, k - 1)
    /\ fetchCalls' = Append(fetchCalls, Sent("galleryItems"))

\* catch (error) { toast } of deleteGalleryItem
DeleteThrows(k) ==
    /\ toast' = Toast("Error", "error.message")
    /\ deleteCalls' = RemoveAt(deleteCalls, k - 1)
    /\ UNCHANGED fetchCalls

\* await storage.from('gallery-images').remove([filePath]) settles: it
\* removes the file, resolves with an error, or rejects
GalleryFileRemoved ==
    \E k \in 1..Len(deleteCalls), outcome \in {"removed", "error", "throws"} :
        LET c == deleteCalls[k] IN
        /\ c.pc = "remove"
        /\ storage' = IF outcome = "removed" THEN storage \ LastSegment(c.url)
                      ELSE storage
        /\ IF outcome = "throws"
           THEN DeleteThrows(k)
           ELSE /\ deleteCalls' = [deleteCalls EXCEPT
                       ![k].pc = "delete",
                       ![k].reqs = Append(@, Request("delete", c.coll, c.id))]
                /\ UNCHANGED <<fetchCalls, toast>>
        /\ UNCHANGED <<db, nextId, uploads, otherThanDelete>>

\* from(table).delete().eq('id', id) answers, for the three delete handlers
RowDeleted ==
    \E k \in 1..Len(deleteCalls), ok \in BOOLEAN :
        LET c == deleteCalls[k] IN
        /\ c.pc = "delete"
        /\ deleteCalls' = RemoveAt(deleteCalls, k - 1)
        /\ IF ok
           THEN /\ db' = [db EXCEPT ![FetchTable[c.coll]] = {r \in @ : r.id # c.id}]
                /\ toast' = Toast("Success", "deleted")
                /\ fetchCalls' = Append(fetchCalls, Sent(c.coll))
           ELSE /\ toast' = Toast("Error", "Failed to delete")
                /\ UNCHANGED <<db, fetchCalls>>
        /\ UNCHANGED <<storage, nextId, uploads, otherThanDelete>>

\* the trash button of a project
deleteProjectWith(confirm) ==
    /\ Shown("projects")
    /\ MayDelete("projects")
    /\ \E k \in 1..Len(projects) :
           IF Declined(confirm)
           THEN UNCHANGED deleteCalls
           ELSE deleteCalls' = Append(deleteCalls,
                    DeleteCall("projects", "delete", projects[k].id, NoObject))
    /\ UNCHANGED <<backendVars, otherThanDelete, fetchCalls, toast>>
deleteProject == \E confirm \in BOOLEAN : deleteProjectWith(confirm)

\* the trash button of a service
deleteServiceWith(confirm) ==
    /\ Shown("services")
    /\ MayDelete("services")
    /\ \E k \in 1..Len(services) :
           IF Declined(confirm)
           THEN UNCHANGED deleteCalls
           ELSE deleteCalls' = Append(deleteCalls,
                    DeleteCall("services", "delete", services[k].id, NoObject))
    /\ UNCHANGED <<backendVars, otherThanDelete, fetchCalls, toast>>
deleteService == \E confirm \in BOOLEAN : deleteServiceWith(confirm)

(***************************************************************************)
(* The effect run at mount: checkAuth and the auth-state subscription.     *)
(* user is TRUE once setUser(session.user) has run.                        *)
(***************************************************************************)
otherThanAuth == <<backendVars, listVars, projectFormVars, serviceFormVars,
                   galleryFormVars, tab, publicVars, callVars, toast>>
\* the three fetches of Promise.all([fetchProjects(), fetchServices(),
\* fetchGalleryItems()])
InitialFetches == <<Sent("projects"), Sent("services"), Sent("galleryItems")>>

\* a checkAuth that goes on to the fetches whatever getSession returned
checkAuthFetchesAnyway(s) ==
    /\ user' = s
    /\ fetchCalls' = fetchCalls \o InitialFetches
    /\ authPc' = "fetching"
    /\ UNCHANGED route

\* checkAuth after `await supabase.auth.getSession()` has returned s
checkAuthGoesOn(s) ==
    IF ~s
    THEN /\ route' = "/auth"
         /\ authPc' = "returned"
         /\ UNCHANGED <<user, fetchCalls>>
    ELSE /\ user' = TRUE
         /\ fetchCalls' = fetchCalls \o InitialFetches
         /\ authPc' = "fetching"
         /\ UNCHANGED route

\* getSession() answers with the session the backend holds
getSessionResolved ==
    /\ authPc = "getSession"
    /\ checkAuthGoesOn(session)
    /\ UNCHANGED <<session, loading, otherThanAuth>>

\* Promise.all has resolved: each fetch has run to its end; setLoading(false)
\* has no effect once the view is unmounted
initialFetchesResolved ==
    /\ authPc = "fetching"
    /\ fetchCalls = <<>>
    /\ authPc' = "done"
    /\ loading' = IF route = "/admin" THEN FALSE ELSE loading
    /\ UNCHANGED <<session, user, route, fetchCalls, otherThanAuth>>

\* the callback given to onAuthStateChange, called with session s
authStateChanged(s) ==
    IF ~s
    THEN route' = "/auth" /\ UNCHANGED user
    ELSE user' = TRUE /\ UNCHANGED route

\* the session changes at the auth backend (sign-in, sign-out in another
\* tab, expiry); the subscription delivers it while the view is mounted
\* (the cleanup of the effect unsubscribes)
onAuthStateChange ==
    \E s \in BOOLEAN :
        /\ session' = s
        /\ IF route = "/admin"
           THEN authStateChanged(s)
           ELSE UNCHANGED <<user, route>>
        /\ UNCHANGED <<loading, authPc, fetchCalls, otherThanAuth>>

(***************************************************************************)
(* The dashboard as first rendered: the session check and the three        *)
(* initial fetches have resolved, the forms are empty, nothing is in       *)
(* flight.  The backend already holds one row of each collection.          *)
(***************************************************************************)
Word == Text(5, 0, "a")
FirstPicture == [bucket |-> "gallery-images", dir |-> 0, file |-> 1, name |-> 0]
InitDb ==
    [t \in Tables |->
        CASE t = "projects" ->
               {[id |-> -1, title |-> Word, description |-> Word, category |-> Word,
                 location |-> Undefined, year_completed |-> NoNum]}
          [] t = "services" ->
               {[id |-> -1, title |-> Word, slug |-> Word, description |-> Word,
                 short_description |-> Word, icon |-> Null, is_active |-> TRUE]}
          [] t = "gallery" ->
               {[id |-> -1, image_url |-> FirstPicture, video_url |-> Null,
                 title |-> Null, description |-> Null, category |-> Team,
                 media_type |-> "image"]}
          [] OTHER -> {}]

\* the backend before the page has written anything
\* the public pages as their components are constructed: lists empty, the
\* loading flag set, filters on "all", the lightbox closed
NewGallery ==
    [images |-> <<>>, loading |-> TRUE, selectedCategory |-> "all",
     selectedMediaType |-> "all", lightboxOpen |-> FALSE, lightboxIndex |-> 0]
NewMedia ==
    [media |-> <<>>, loading |-> TRUE, selectedCategory |-> "all",
     selectedMediaType |-> "all", lightboxOpen |-> FALSE, lightboxIndex |-> 0]
NoService == [id |-> 0]
NewDetail(slug) ==
    [slug |-> slug, service |-> NoService, images |-> <<>>, videos |-> <<>>,
     loading |-> TRUE]
InitPublic ==
    /\ galleryView = NewGallery
    /\ mediaView = NewMedia
    /\ serviceDetail = NewDetail(Empty)
    /\ detailCalls = <<>>

InitBackend ==
    /\ db = InitDb
    /\ storage = {FirstPicture}
    /\ nextId = 1
    /\ uploads = 0
\* the useState initial values of the forms (70-101); nothing in flight
InitForms ==
    /\ title = Empty
    /\ description = Empty
    /\ category = Empty
    /\ location = Empty
    /\ yearCompleted = NoYear
    /\ images = <<>>
    /\ projectVideos = <<>>
    /\ submitting = FALSE
    /\ serviceTitle = Empty
    /\ serviceSlug = Empty
    /\ serviceShortDesc = Empty
    /\ serviceDescription = Empty
    /\ serviceIcon = Empty
    /\ serviceImages = <<>>
    /\ serviceVideos = <<>>
    /\ editingService = 0
    /\ serviceSubmitting = FALSE
    /\ galleryTitle = Empty
    /\ galleryDescription = Empty
    /\ galleryCategory = Team
    /\ galleryImages = <<>>
    /\ galleryVideoUrl = Empty
    /\ galleryMediaType = "image"
    /\ gallerySubmitting = FALSE
    /\ tab \in {"projects", "services", "gallery"}
    /\ submitCalls = <<>>
    /\ serviceSubmitCalls = <<>>
    /\ gallerySubmitCalls = <<>>
    /\ deleteCalls = <<>>
    /\ fetchCalls = <<>>
    /\ toast = NoToast

Init ==
    /\ InitBackend
    /\ InitForms
    /\ projects = Descending(db["projects"])
    /\ services = Descending(db["services"])
    /\ galleryItems = Descending(db["gallery"])
    /\ session = TRUE
    /\ user = TRUE
    /\ loading = FALSE
    /\ route = "/admin"
    /\ authPc = "done"
    /\ InitPublic

\* the view at mount, before checkAuth has heard from getSession: the lists
\* empty, loading, with or without a session at the auth backend
InitMount ==
    /\ InitBackend
    /\ InitForms
    /\ projects = <<>>
    /\ services = <<>>
    /\ galleryItems = <<>>
    /\ session \in BOOLEAN
    /\ user = FALSE
    /\ loading = TRUE
    /\ route = "/admin"
    /\ authPc = "getSession"
    /\ InitPublic

(***************************************************************************)
(* Project creation with media: the form filled in with valid texts,       *)
(* every selection of files, every outcome of every request.               *)
(***************************************************************************)
NextProject ==
    \/ typeProject({Word}, {Word}, {Word}, {Empty}, {NoYear})
    \/ handleImageChange
    \/ removeImage
    \/ setProjectVideos
    \/ removeProjectVideo
    \/ handleSubmit
    \/ ProjectInserted
    \/ ProjectImageUploaded
    \/ ProjectImageInserted
    \/ ProjectVideoUploaded
    \/ ProjectVideoInserted

Slug == Text(6, 0, "b")
NextService ==
    \/ typeService({Word}, {Slug}, {Empty}, {Word}, {Empty})
    \/ handleServiceImageChange
    \/ removeServiceImage
    \/ setServiceVideos
    \/ removeServiceVideo
    \/ editService
    \/ cancelEditService
    \/ handleServiceSubmit
    \/ ServiceUpdated
    \/ ServiceInserted
    \/ ServiceImageUploaded
    \/ ServiceImageInserted
    \/ ServiceVideoUploaded
    \/ ServiceVideoInserted

Url == Text(20, 0, "u")
NextGallery ==
    \/ typeGallery({Empty}, {Empty}, {Team}, {Empty, Url})
    \/ setGalleryMediaType
    \/ setGalleryImages
    \/ removeGalleryImage
    \/ handleGallerySubmit
    \/ GalleryImageUploaded
    \/ GalleryImageInserted
    \/ GalleryVideoInserted

NextFetch ==
    \/ FetchServed
    \/ FetchResolved

(***************************************************************************)
(* The three forms, on the tab the operator has opened.                    *)
(***************************************************************************)
Next == NextProject \/ NextService \/ NextGallery \/ NextFetch
Spec == Init /\ [][Next]_vars

\* the awaited request of a submission in flight is answered, with success
\* or with an error
ProjectAnswers ==
    \/ ProjectInserted
    \/ ProjectImageUploaded
    \/ ProjectImageInserted
    \/ ProjectVideoUploaded
    \/ ProjectVideoInserted
ServiceAnswers ==
    \/ ServiceUpdated
    \/ ServiceInserted
    \/ ServiceImageUploaded
    \/ ServiceImageInserted
    \/ ServiceVideoUploaded
    \/ ServiceVideoInserted
GalleryAnswers ==
    \/ GalleryImageUploaded
    \/ GalleryImageInserted
    \/ GalleryVideoInserted
\* the three forms with a backend that answers every request it is sent
SpecAnswered ==
    /\ Spec
    /\ WF_vars(ProjectAnswers)
    /\ WF_vars(ServiceAnswers)
    /\ WF_vars(GalleryAnswers)

(***************************************************************************)
(* The delete buttons of the three lists.                                  *)
(***************************************************************************)
NextDelete ==
    \/ deleteProject
    \/ deleteService
    \/ deleteGalleryItem
    \/ GalleryFileRemoved
    \/ RowDeleted
    \/ NextFetch
SpecDelete == Init /\ [][NextDelete]_vars

\* the editing of the listed services and the deletes, with no typing: the
\* refreshes of an update and of a delete may overlap
NextEditing ==
    \/ editService
    \/ cancelEditService
    \/ handleServiceSubmit
    \/ ServiceUpdated
    \/ deleteService
    \/ RowDeleted
    \/ FetchServed
    \/ FetchResolved
SpecEditing == Init /\ [][NextEditing]_vars

\* texts around the bounds of a schema field: empty, blank, of the greatest
\* length, the same with whitespace around it, one character too long
Texts(max) ==
    {Empty, Text(0, MaxPad, "a"), Text(max, 0, "a"), Text(max, MaxPad, "a"),
     Text(max + 1, 0, "a")}
\* years around the bounds of year_completed
Years ==
    {NoYear, YearText("int", YearMin - 1), YearText("int", YearMin),
     YearText("int", CurrentYear + 1), YearText("int", CurrentYear + 2)}
\* the three forms with one field at a time taken around the bounds of its
\* schema, submitted without files
NextValidate ==
    \/ typeProject(Texts(TitleMax), {Word}, {Word}, {Empty}, {NoYear})
    \/ typeProject({Word}, Texts(DescriptionMax), {Word}, {Empty}, {NoYear})
    \/ typeProject({Word}, {Word}, Texts(CategoryMax), {Empty}, {NoYear})
    \/ typeProject({Word}, {Word}, {Word}, Texts(LocationMax), {NoYear})
    \/ typeProject({Word}, {Word}, {Word}, {Empty}, Years)
    \/ handleSubmit
    \/ ProjectInserted
    \/ typeService(Texts(ServiceTitleMax), {Slug}, {Empty}, {Word}, {Empty})
    \/ typeService({Word}, Texts(SlugMax), {Empty}, {Word}, {Empty})
    \/ typeService({Word}, {Slug}, Texts(ShortDescriptionMax), {Word}, {Empty})
    \/ typeService({Word}, {Slug}, {Empty}, {Empty, Text(0, MaxPad, "a")}, {Empty})
    \/ typeService({Word}, {Slug}, {Empty}, {Word}, Texts(IconMax))
    \/ handleServiceSubmit
    \/ ServiceInserted
    \/ typeGallery(Texts(GalleryTitleMax), {Empty}, {Team}, {Url})
    \/ typeGallery({Empty}, Texts(GalleryDescriptionMax), {Team}, {Url})
    \/ setGalleryMediaType
    \/ handleGallerySubmit
    \/ GalleryVideoInserted
    \/ FetchServed
    \/ FetchResolved
SpecValidate == Init /\ [][NextValidate]_vars

\* a service edited and saved with the short description and the icon
\* filled in, left empty or holding spaces only
OptionalTexts == {Empty, Text(0, 1, ""), Text(3, 0, "b")}
NextOptional ==
    \/ typeService({Word}, {Word, Slug}, OptionalTexts, {Word}, OptionalTexts)
    \/ editService
    \/ handleServiceSubmit
    \/ ServiceUpdated
    \/ ServiceInserted
    \/ FetchServed
    \/ FetchResolved
SpecOptional == Init /\ [][NextOptional]_vars

\* the gallery form submitted in either mode, with or without images, the
\* video URL empty, of spaces only, or a URL with or without spaces around it
VideoUrls == {Empty, Text(0, 1, ""), Url, Text(20, 1, "u")}
NextMode ==
    \/ typeGallery({Empty}, {Empty}, {Team}, VideoUrls)
    \/ setGalleryMediaType
    \/ setGalleryImages
    \/ handleGallerySubmit
    \/ GalleryImageUploaded
    \/ GalleryImageInserted
    \/ GalleryVideoInserted
    \/ FetchServed
    \/ FetchResolved
SpecMode == Init /\ [][NextMode]_vars

\* what the year input can hold: nothing, integers around the bounds, zero,
\* numbers with a fraction just below the lower and just above the upper
\* bound, and a text with no leading digit
YearInputs ==
    Years \cup {YearText("int", 0), YearText("frac", YearMin - 1),
                YearText("frac", CurrentYear + 1), YearText("text", 0)}
\* the project form submitted with every kind of year
NextYear ==
    \/ typeProject({Word}, {Word}, {Word}, {Empty}, YearInputs)
    \/ handleSubmit
    \/ ProjectInserted
    \/ FetchServed
    \/ FetchResolved
SpecYear == Init /\ [][NextYear]_vars

\* the creation of a service whose slug may be the one of the listed service
NextSlug ==
    \/ typeService({Word}, {Word, Text(5, MaxPad, "a"), Slug}, {Empty}, {Word},
                   {Empty})
    \/ handleServiceImageChange
    \/ setServiceVideos
    \/ handleServiceSubmit
    \/ ServiceInserted
    \/ ServiceImageUploaded
    \/ ServiceImageInserted
    \/ ServiceVideoUploaded
    \/ ServiceVideoInserted
    \/ FetchServed
    \/ FetchResolved
SpecSlug == Init /\ [][NextSlug]_vars

\* every operation that writes to the backend: the creations (a project
\* and a service without files, a gallery video), the update of a service
\* and the three deletes
NextMutations ==
    \/ typeProject({Word}, {Word}, {Word}, {Empty}, {NoYear})
    \/ handleSubmit
    \/ ProjectInserted
    \/ typeService({Word}, {Slug}, {Empty}, {Word}, {Empty})
    \/ editService
    \/ handleServiceSubmit
    \/ ServiceInserted
    \/ ServiceUpdated
    \/ typeGallery({Empty}, {Empty}, {Team}, {Url})
    \/ setGalleryMediaType
    \/ handleGallerySubmit
    \/ GalleryVideoInserted
    \/ deleteProject
    \/ deleteService
    \/ deleteGalleryItem
    \/ GalleryFileRemoved
    \/ RowDeleted
    \/ FetchServed
    \/ FetchResolved
SpecMutations == Init /\ [][NextMutations]_vars

\* the mount of the view: the session check, the initial fetches and the
\* auth-state changes
NextAuth ==
    \/ getSessionResolved
    \/ initialFetchesResolved
    \/ onAuthStateChange
    \/ FetchServed
    \/ FetchResolved
SpecAuth == InitMount /\ [][NextAuth]_vars

\* a project is created with images and deleted again; the listed gallery
\* item is deleted
NextCleanup ==
    \/ typeProject({Word}, {Word}, {Word}, {Empty}, {NoYear})
    \/ handleImageChange
    \/ handleSubmit
    \/ ProjectInserted
    \/ ProjectImageUploaded
    \/ ProjectImageInserted
    \/ deleteProject
    \/ deleteGalleryItem
    \/ GalleryFileRemoved
    \/ RowDeleted
    \/ FetchServed
    \/ FetchResolved
SpecCleanup == Init /\ [][NextCleanup]_vars

(***************************************************************************)
(* The public gallery pages.  Both keep the fetched list, two filters and  *)
(* the lightbox; the list shown and the list handed to the lightbox are    *)
(* computed from them on every render.                                     *)
(***************************************************************************)
MaxItems == 3
adminVars == <<backendVars, listVars, projectFormVars, serviceFormVars,
               galleryFormVars, tab, session, user, loading, route, authPc,
               callVars, fetchCalls, toast>>
\* every list of at most MaxItems items of the given kinds, the id of an
\* item being its position in the list
ListsOf(kinds) ==
    UNION {[1..n -> kinds] : n \in 0..MaxItems}
Numbered(q) == [j \in 1..Len(q) |-> [id |-> j] @@ q[j]]

\* rows of the gallery table as select("*") returns them: an image row
\* with or without an image_url, a video row
GalleryRows ==
    {[category |-> c, media_type |-> "image", image_url |-> u] :
        c \in {"team", "projects"}, u \in {Null, Url}}
    \cup {[category |-> c, media_type |-> "video", image_url |-> Null] :
             c \in {"team", "projects"}}
galleryCategories == {"all", "team", "projects", "workshop"}
mediaTypes == {"all", "image", "video"}

\* fetchGalleryImages answers: setImages(data || []), or console.error;
\* finally setLoading(false)
fetchGalleryImages ==
    /\ galleryView.loading
    /\ \E ok \in BOOLEAN, data \in ListsOf(GalleryRows) :
          galleryView' = [galleryView EXCEPT
                             !.images = IF ok THEN Numbered(data) ELSE @,
                             !.loading = FALSE]
    /\ UNCHANGED <<adminVars, mediaView, serviceDetail, detailCalls>>

filteredImages(v) ==
    LET Match(img) ==
            /\ v.selectedCategory = "all" \/ img.category = v.selectedCategory
            /\ v.selectedMediaType = "all" \/ img.media_type = v.selectedMediaType
    IN SelectSeq(v.images, Match)
\* the images handed to the lightbox
imageUrls(v) ==
    LET Picture(img) == img.media_type = "image" /\ Truthy(img.image_url)
        shown == SelectSeq(filteredImages(v), Picture)
    IN [j \in 1..Len(shown) |-> [id |-> shown[j].id, image_url |-> shown[j].image_url]]
\* the index handleImageClick computes for the item at index of the grid
filteredIndex(v, index) ==
    LET IsImage(img) == img.media_type = "image"
    IN Len(SelectSeq(SubSeq(filteredImages(v), 1, index + 1), IsImage)) - 1

setSelectedCategory ==
    /\ ~galleryView.loading
    /\ \E c \in galleryCategories :
          galleryView' = [galleryView EXCEPT !.selectedCategory = c]
    /\ UNCHANGED <<adminVars, mediaView, serviceDetail, detailCalls>>
setSelectedMediaType ==
    /\ ~galleryView.loading
    /\ \E t \in mediaTypes :
          galleryView' = [galleryView EXCEPT !.selectedMediaType = t]
    /\ UNCHANGED <<adminVars, mediaView, serviceDetail, detailCalls>>
\* onClick of the grid item at index: handleImageClick(index) when the item
\* is an image
handleImageClickAt(index) ==
    /\ ~galleryView.loading
    /\ index < Len(filteredImages(galleryView))
    /\ filteredImages(galleryView)[index + 1].media_type = "image"
    /\ galleryView' = [galleryView EXCEPT
                          !.lightboxIndex = filteredIndex(galleryView, index),
                          !.lightboxOpen = TRUE]
    /\ UNCHANGED <<adminVars, mediaView, serviceDetail, detailCalls>>
handleImageClick == \E index \in 0..(MaxItems - 1) : handleImageClickAt(index)
\* onClose of the lightbox
closeLightbox ==
    /\ galleryView.lightboxOpen
    /\ galleryView' = [galleryView EXCEPT !.lightboxOpen = FALSE]
    /\ UNCHANGED <<adminVars, mediaView, serviceDetail, detailCalls>>

NextGalleryView ==
    \/ fetchGalleryImages
    \/ setSelectedCategory
    \/ setSelectedMediaType
    \/ handleImageClick
    \/ closeLightbox
SpecGalleryView == Init /\ [][NextGalleryView]_vars

\* items of the WordPress galleries as getGalleries returns them, flattened
\* in the order of the galleries: the slug of the gallery and the extension
\* of the item's url
MediaItems ==
    {[slug |-> g, ext |-> e] : g \in {"a", "b"}, e \in {"jpg", "mp4", "webm"}}
\* allMedia.push({...}): the category is the gallery slug, the type is read
\* off the end of the url
GalleryMedia(item) ==
    [id |-> item.id, category |-> item.slug,
     type |-> IF item.ext \in {"mp4", "webm"} THEN "video" ELSE "image",
     url |-> [name |-> item.id, ext |-> item.ext]]
\* fetchGalleryMedia answers: setMedia(allMedia), or console.error; finally
\* setLoading(false)
fetchGalleryMedia ==
    /\ mediaView.loading
    /\ \E ok \in BOOLEAN, galleries \in ListsOf(MediaItems) :
          mediaView' = [mediaView EXCEPT
                           !.media = IF ok
                                     THEN [j \in 1..Len(galleries) |->
                                              GalleryMedia(Numbered(galleries)[j])]
                                     ELSE @,
                           !.loading = FALSE]
    /\ UNCHANGED <<adminVars, galleryView, serviceDetail, detailCalls>>
mediaCategories(v) == {"all"} \cup {v.media[j].category : j \in 1..Len(v.media)}
filteredMedia(v) ==
    LET Match(item) ==
            /\ v.selectedCategory = "all" \/ item.category = v.selectedCategory
            /\ v.selectedMediaType = "all" \/ item.type = v.selectedMediaType
    IN SelectSeq(v.media, Match)
mediaImageUrls(v) ==
    LET Picture(item) == item.type = "image"
        shown == SelectSeq(filteredMedia(v), Picture)
    IN [j \in 1..Len(shown) |-> [id |-> shown[j].id, image_url |-> shown[j].url]]
mediaFilteredIndex(v, index) ==
    LET IsImage(item) == item.type = "image"
    IN Len(SelectSeq(SubSeq(filteredMedia(v), 1, index + 1), IsImage)) - 1
setMediaCategory ==
    /\ ~mediaView.loading
    /\ \E c \in mediaCategories(mediaView) :
          mediaView' = [mediaView EXCEPT !.selectedCategory = c]
    /\ UNCHANGED <<adminVars, galleryView, serviceDetail, detailCalls>>
setMediaType ==
    /\ ~mediaView.loading
    /\ \E t \in mediaTypes :
          mediaView' = [mediaView EXCEPT !.selectedMediaType = t]
    /\ UNCHANGED <<adminVars, galleryView, serviceDetail, detailCalls>>
handleMediaClickAt(index) ==
    /\ ~mediaView.loading
    /\ index < Len(filteredMedia(mediaView))
    /\ filteredMedia(mediaView)[index + 1].type = "image"
    /\ mediaView' = [mediaView EXCEPT
                        !.lightboxIndex = mediaFilteredIndex(mediaView, index),
                        !.lightboxOpen = TRUE]
    /\ UNCHANGED <<adminVars, galleryView, serviceDetail, detailCalls>>
handleMediaClick == \E index \in 0..(MaxItems - 1) : handleMediaClickAt(index)
closeMediaLightbox ==
    /\ mediaView.lightboxOpen
    /\ mediaView' = [mediaView EXCEPT !.lightboxOpen = FALSE]
    /\ UNCHANGED <<adminVars, galleryView, serviceDetail, detailCalls>>

NextMediaView ==
    \/ fetchGalleryMedia
    \/ setMediaCategory
    \/ setMediaType
    \/ handleMediaClick
    \/ closeMediaLightbox
SpecMediaView == Init /\ [][NextMediaView]_vars

(***************************************************************************)
(* The service detail page.  The effect on [slug] calls                    *)
(* fetchServiceDetails, which awaits three queries in turn and sets the    *)
(* state after each; nothing cancels an invocation when the slug changes   *)
(* and nothing resets the state.                                           *)
(***************************************************************************)
MaxDetailCalls == 2
ChildRowsOf(rows, id) == {r \in rows : r.parent = id}
\* two services, each with an image and a video of its own
StoredFile(id, kind) ==
    [bucket |-> "service-images", dir |-> id, file |-> kind, name |-> 0]
DetailDb ==
    [InitDb EXCEPT
        !["services"] = @ \cup
            {[id |-> -2, title |-> Word, slug |-> Slug, description |-> Word,
              short_description |-> Null, icon |-> Null, is_active |-> TRUE]},
        !["service_images"] =
            {[parent |-> id, url |-> StoredFile(id, 1), is_primary |-> TRUE,
              display_order |-> 0] : id \in {-1, -2}},
        !["service_videos"] =
            {[parent |-> id, url |-> StoredFile(id, 2), display_order |-> 0] :
                id \in {-1, -2}}]
\* the slugs the router can hand to the page: of the two services, and one
\* no service has
DetailSlugs == {Word, Slug, Text(4, 0, "x")}
\* rows as order("display_order", { ascending: true }) returns them
RECURSIVE Ascending(_)
Ascending(rows) ==
    IF rows = {} THEN <<>>
    ELSE LET r == CHOOSE x \in rows : \A y \in rows : x.display_order <= y.display_order
         IN <<r>> \o Ascending(rows \ {r})
\* storage.from("service-images").getPublicUrl(img.image_url).data.publicUrl
PublicUrl(path) == [bucket |-> "service-images", path |-> path]
\* an invocation of fetchServiceDetails: the slug of its render, the query
\* it awaits, and serviceData.id once the first query has answered
DetailCall(slug) == [slug |-> slug, pc |-> "services", id |-> 0]
\* the effect on [slug]: fetchServiceDetails(), which returns at once
\* without a slug
Effect(slug) ==
    IF Truthy(slug) THEN Append(detailCalls, DetailCall(slug)) ELSE detailCalls

\* the page mounted on a slug, its first fetch issued
InitDetail ==
    /\ db = DetailDb
    /\ storage = {FirstPicture}
    /\ nextId = 1
    /\ uploads = 0
    /\ InitForms
    /\ projects = Descending(db["projects"])
    /\ services = Descending(db["services"])
    /\ galleryItems = Descending(db["gallery"])
    /\ session = TRUE
    /\ user = TRUE
    /\ loading = FALSE
    /\ route = "/admin"
    /\ authPc = "done"
    /\ galleryView = NewGallery
    /\ mediaView = NewMedia
    /\ \E slug \in DetailSlugs :
          /\ serviceDetail = NewDetail(slug)
          /\ detailCalls = <<DetailCall(slug)>>

\* the router hands the page another slug: the component renders with it
\* and the effect runs again
slugChanged ==
    /\ Len(detailCalls) < MaxDetailCalls
    /\ \E slug \in DetailSlugs :
          /\ slug # serviceDetail.slug
          /\ serviceDetail' = [serviceDetail EXCEPT !.slug = slug]
          /\ detailCalls' = Effect(slug)
    /\ UNCHANGED <<adminVars, galleryView, mediaView>>
\* from("services").select("*").eq("slug", slug).eq("is_active", true)
\* .single() answers: an error unless exactly one row matches
serviceAnswered ==
    \E k \in 1..Len(detailCalls), ok \in BOOLEAN :
        LET c == detailCalls[k]
            found == {r \in db["services"] : r.slug = c.slug /\ r.is_active}
        IN
        /\ c.pc = "services"
        /\ IF ok /\ Cardinality(found) = 1
           THEN LET serviceData == CHOOSE r \in found : TRUE IN
                /\ serviceDetail' = [serviceDetail EXCEPT !.service = serviceData]
                /\ detailCalls' = [detailCalls EXCEPT
                                      ![k] = [c EXCEPT !.pc = "service_images",
                                                       !.id = serviceData.id]]
           ELSE /\ serviceDetail' = [serviceDetail EXCEPT !.loading = FALSE]
                /\ detailCalls' = RemoveAt(detailCalls, k - 1)
        /\ UNCHANGED <<adminVars, galleryView, mediaView>>
\* from("service_images").select("*").eq("service_id", serviceData.id) answers
imagesAnswered ==
    \E k \in 1..Len(detailCalls), ok \in BOOLEAN :
        LET c == detailCalls[k]
            imagesData == Ascending(ChildRowsOf(db["service_images"], c.id))
        IN
        /\ c.pc = "service_images"
        /\ serviceDetail' =
              [serviceDetail EXCEPT
                  !.images = IF ok
                             THEN [j \in 1..Len(imagesData) |->
                                      PublicUrl(imagesData[j].url)]
                             ELSE @]
        /\ detailCalls' = [detailCalls EXCEPT ![k] = [c EXCEPT !.pc = "service_videos"]]
        /\ UNCHANGED <<adminVars, galleryView, mediaView>>
\* from("service_videos").select("*").eq("service_id", serviceData.id)
\* answers; setLoading(false)
videosAnswered ==
    \E k \in 1..Len(detailCalls), ok \in BOOLEAN :
        LET c == detailCalls[k]
            videosData == Ascending(ChildRowsOf(db["service_videos"], c.id))
        IN
        /\ c.pc = "service_videos"
        /\ serviceDetail' =
              [serviceDetail EXCEPT !.videos = IF ok THEN videosData ELSE @,
                                    !.loading = FALSE]
        /\ detailCalls' = RemoveAt(detailCalls, k - 1)
        /\ UNCHANGED <<adminVars, galleryView, mediaView>>

NextDetail ==
    \/ slugChanged
    \/ serviceAnswered
    \/ imagesAnswered
    \/ videosAnswered
SpecDetail == InitDetail /\ [][NextDetail]_vars

(***************************************************************************)
(* Properties of the admin page.  A handler's call ends on the step that   *)
(* takes it out of its list of calls in flight; the notice of that step    *)
(* tells whether it ended in the try block or in catch.                    *)
(***************************************************************************)
ChildRows(rows, id) == {r \in rows : r.parent = id}
\* the image rows of a parent, each with the file its URL was made for
ImagesOf(rows, id) ==
    {[file |-> r.url.file, is_primary |-> r.is_primary,
      display_order |-> r.display_order] : r \in ChildRows(rows, id)}
\* one row per selected file, the first one primary, ordered as selected
ImagesOwed(q) ==
    {[file |-> q[j], is_primary |-> (j = 1), display_order |-> j - 1] :
        j \in 1..Len(q)}

\* C1: a project or service creation that succeeds with N selected images
\* has inserted exactly N image rows for the new parent id, the row of the
\* first file the only primary one, display_order 0..N-1 in selection order.
C1_ImageRowsOfCreation ==
    [][/\ \A k \in 1..Len(submitCalls) :
            LET c == submitCalls[k] IN
            /\ submitCalls' = RemoveAt(submitCalls, k - 1)
            /\ toast' = Toast("Success", "Project created successfully")
            => /\ Cardinality(ChildRows(db'["project_images"], c.id)) = Len(c.images)
               /\ ImagesOf(db'["project_images"], c.id) = ImagesOwed(c.images)
       /\ \A k \in 1..Len(serviceSubmitCalls) :
            LET c == serviceSubmitCalls[k] IN
            /\ serviceSubmitCalls' = RemoveAt(serviceSubmitCalls, k - 1)
            /\ c.editing = 0
            /\ toast' = Toast("Success", "Service created successfully")
            => /\ Cardinality(ChildRows(db'["service_images"], c.id)) = Len(c.images)
               /\ ImagesOf(db'["service_images"], c.id) = ImagesOwed(c.images)
      ]_vars
\* a service has just been created with two images
C1_Witness ==
    /\ toast = Toast("Success", "Service created successfully")
    /\ serviceSubmitCalls = <<>>
    /\ \E r \in db["services"] :
          /\ r.id > 0
          /\ Cardinality(ChildRows(db["service_images"], r.id)) = 2

\* the in-memory list of a collection
ListOf(coll) ==
    CASE coll = "projects" -> projects
      [] coll = "services" -> services
      [] coll = "galleryItems" -> galleryItems
\* no handler and no refresh of the collection is in flight
Settled(coll) ==
    /\ Fetching(coll) = 0
    /\ submitCalls = <<>> /\ serviceSubmitCalls = <<>>
    /\ gallerySubmitCalls = <<>> /\ deleteCalls = <<>>

\* C2: after successful creates, updates and deletes on a collection (the
\* last notice is a success), once every refresh issued for the collection
\* has resolved, the in-memory list is the backend's current contents,
\* whatever the order in which overlapping refresh responses arrived.
C2_ListIsBackendContents ==
    \A coll \in Collections :
        Settled(coll) /\ toast.title = "Success" => ListOf(coll) = Select(coll)

\* C3: once the operator has confirmed, deleteGalleryItem always issues the
\* database delete of the item, whether the removal of the stored file
\* succeeds, returns an error or throws: no call of it ends while it is
\* still waiting for the removal.
C3_DeleteAlwaysIssued ==
    [][\A k \in 1..Len(deleteCalls) :
          deleteCalls[k].coll = "galleryItems" /\ deleteCalls[k].pc = "remove"
          => deleteCalls' # RemoveAt(deleteCalls, k - 1)]_vars

\* the step answers call k of a handler: the call ends or moves on
Ended(calls, after, k) == after = RemoveAt(calls, k - 1)
Answered(calls, after, k) ==
    \/ Ended(calls, after, k)
    \/ Len(after) = Len(calls) /\ after[k] # calls[k]
\* the step commits nothing to the backend: the request it answers failed
NothingCommitted == db' = db /\ storage' = storage
IsUpload(r) == r.op = "upload"
\* the uploads a loop has issued when it is at index i of the files q
UploadsUpTo(q, i, kind) == [j \in 1..(i + 1) |-> Request("upload", kind, q[j])]

\* C4: in a gallery image submission whose k-th upload or row insert fails
\* (k = c.i + 1), the handler ends there with an error notice, having
\* issued uploads for the images 1..k only; exactly k-1 rows of it are
\* committed and each of them, and every file it uploaded, is still there.
C4_GalleryFailsAtKth ==
    [][\A k \in 1..Len(gallerySubmitCalls) :
          LET c == gallerySubmitCalls[k] IN
          /\ c.pc \in {"image_upload", "gallery"}
          /\ Answered(gallerySubmitCalls, gallerySubmitCalls', k)
          /\ NothingCommitted
          => /\ Ended(gallerySubmitCalls, gallerySubmitCalls', k)
             /\ toast'.title = "Error"
             /\ SelectSeq(c.reqs, IsUpload) = UploadsUpTo(c.images, c.i, "image")
             /\ Cardinality({r \in db'["gallery"] : r.image_url \in Range(c.urls)})
                  = c.i
             /\ \A j \in 1..c.i :
                   \E r \in db'["gallery"] : r.image_url = c.urls[j]
             /\ Range(c.urls) \subseteq storage'
      ]_vars
\* the second of two images has failed after the first one was committed
C4_Witness ==
    /\ gallerySubmitCalls = <<>>
    /\ toast = Toast("Error", "error.message")
    /\ Len(galleryImages) = 2
    /\ Cardinality({r \in db["gallery"] : r.id > 0}) = 1
    /\ \E o \in storage : o.name > 0

\* what is in the backend of a creation c when it fails at index c.i of the
\* image loop (inImages) or of the video loop
CommittedBefore(c, inImages, parents, imageRows, videoRows) ==
    /\ \E r \in db'[parents] : r.id = c.id
    /\ ImagesOf(db'[imageRows], c.id)
         = ImagesOwed(SubSeq(c.images, 1, IF inImages THEN c.i ELSE Len(c.images)))
    /\ Cardinality(ChildRows(db'[videoRows], c.id)) = (IF inImages THEN 0 ELSE c.i)
    /\ Range(c.urls) \subseteq storage'
\* the uploads of a creation that fails at index c.i: no later image, and
\* no video when it fails in the image loop
UploadedBefore(c, inImages) ==
    SelectSeq(c.reqs, IsUpload) =
        IF inImages THEN UploadsUpTo(c.images, c.i, "image")
        ELSE UploadsUpTo(c.images, Len(c.images) - 1, "image")
               \o UploadsUpTo(c.videos, c.i, "video")

\* C5: in a project or service creation the first upload or child-row
\* insert that fails ends the submission: no later file is uploaded, no
\* video is uploaded if the image loop failed, the notice is an error, and
\* the parent row, the child rows and the files committed before remain.
C5_CreationFailsFast ==
    [][/\ \A k \in 1..Len(submitCalls) :
            LET c == submitCalls[k] IN
            /\ c.pc \in {"image_upload", "project_images", "video_upload",
                         "project_videos"}
            /\ Answered(submitCalls, submitCalls', k)
            /\ NothingCommitted
            => /\ Ended(submitCalls, submitCalls', k)
               /\ toast'.title = "Error"
               /\ fetchCalls' = fetchCalls
               /\ UploadedBefore(c, c.pc \in {"image_upload", "project_images"})
               /\ CommittedBefore(c, c.pc \in {"image_upload", "project_images"},
                                  "projects", "project_images", "project_videos")
       /\ \A k \in 1..Len(serviceSubmitCalls) :
            LET c == serviceSubmitCalls[k] IN
            /\ c.pc \in {"image_upload", "service_images", "video_upload",
                         "service_videos"}
            /\ Answered(serviceSubmitCalls, serviceSubmitCalls', k)
            /\ NothingCommitted
            => /\ Ended(serviceSubmitCalls, serviceSubmitCalls', k)
               /\ toast'.title = "Error"
               /\ fetchCalls' = fetchCalls
               /\ UploadedBefore(c, c.pc \in {"image_upload", "service_images"})
               /\ CommittedBefore(c, c.pc \in {"image_upload", "service_images"},
                                  "services", "service_images", "service_videos")
      ]_vars
\* a project creation has failed at its second image: the project and its
\* first image are in the backend, the selection is still in the form
C5_Witness ==
    /\ submitCalls = <<>>
    /\ toast = Toast("Error", "error.message")
    /\ Len(images) = 2
    /\ \E r \in db["projects"] :
          /\ r.id > 0
          /\ Cardinality(ChildRows(db["project_images"], r.id)) = 1

NoFields == <<Empty, Empty, Empty, Empty, Empty>>

\* C6: Cancel, clicked while a service is being edited, issues no network
\* call and leaves the service form at its empty defaults: editingService
\* null, the five text fields empty, serviceImages and serviceVideos empty.
C6_CancelEmptiesForm ==
    [][cancelEditService
       => /\ editingService' = 0
          /\ serviceFields' = NoFields
          /\ serviceImages' = <<>>
          /\ serviceVideos' = <<>>
          /\ UNCHANGED <<backendVars, callVars, fetchCalls>>]_vars

\* C7: when a service save (create or update) succeeds, at the step that
\* ends the handler editingService is null, the five text fields are empty
\* and a refresh of the services list has been issued.
C7_SavedServiceFormIdle ==
    [][\A k \in 1..Len(serviceSubmitCalls) :
          /\ Ended(serviceSubmitCalls, serviceSubmitCalls', k)
          /\ toast'.title = "Success"
          => /\ editingService' = 0
             /\ serviceFields' = NoFields
             /\ fetchCalls' = Append(fetchCalls, Sent("services"))]_vars
\* an edited service has just been saved
C7_Witness ==
    /\ toast = Toast("Success", "Service updated successfully")
    /\ serviceSubmitCalls = <<>>
    /\ editingService = 0
    /\ serviceFields = NoFields
    /\ Fetching("services") = 1

\* C8: when the save of a service that is being edited fails (the handler
\* ends with an error notice), editingService still holds the id that was
\* being edited and the text fields still hold the submitted values,
\* whatever the operator did (Cancel, Edit) while the save was in flight.
C8_FailedSaveKeepsEditing ==
    [][\A k \in 1..Len(serviceSubmitCalls) :
          LET c == serviceSubmitCalls[k] IN
          /\ c.editing # 0
          /\ Ended(serviceSubmitCalls, serviceSubmitCalls', k)
          /\ toast'.title = "Error"
          => /\ editingService' = c.editing
             /\ serviceFields' = c.fields]_vars

\* C9: at most one submission of each form is in flight, and while one is
\* in flight the form's submitting flag is true and its submit button is
\* disabled.
C9_OneSubmissionPerForm ==
    /\ Len(submitCalls) <= 1
    /\ Len(serviceSubmitCalls) <= 1
    /\ Len(gallerySubmitCalls) <= 1
    /\ submitCalls # <<>> => submitting /\ SubmitDisabled
    /\ serviceSubmitCalls # <<>> => serviceSubmitting /\ ServiceSubmitDisabled
    /\ gallerySubmitCalls # <<>> => gallerySubmitting /\ GallerySubmitDisabled
\* a project submission is in the middle of its image loop
C9_Witness ==
    /\ Len(submitCalls) = 1
    /\ submitCalls[1].pc = "image_upload"
    /\ submitCalls[1].i = 1
    /\ submitting

\* the submission is rejected: an error notice and no request of any kind
Rejected ==
    /\ toast'.title = "Error"
    /\ UNCHANGED <<backendVars, callVars, fetchCalls>>

TooLong(x, max) == Length(trim(x)) > max
Blank(x) == Length(trim(x)) = 0
YearOutOfRange ==
    /\ yearCompleted.kind = "int"
    /\ yearCompleted.val < YearMin \/ yearCompleted.val > CurrentYear + 1
ViolatesProjectSchema ==
    \/ Blank(title) \/ TooLong(title, TitleMax)
    \/ Blank(description) \/ TooLong(description, DescriptionMax)
    \/ Blank(category) \/ TooLong(category, CategoryMax)
    \/ TooLong(location, LocationMax)
    \/ YearOutOfRange
ViolatesServiceSchema ==
    \/ Blank(serviceTitle) \/ TooLong(serviceTitle, ServiceTitleMax)
    \/ Blank(serviceSlug) \/ TooLong(serviceSlug, SlugMax)
    \/ TooLong(serviceShortDesc, ShortDescriptionMax)
    \/ Blank(serviceDescription)
    \/ TooLong(serviceIcon, IconMax)
ViolatesGallerySchema ==
    \/ TooLong(galleryTitle, GalleryTitleMax)
    \/ TooLong(galleryDescription, GalleryDescriptionMax)
    \/ Blank(galleryCategory) \/ TooLong(galleryCategory, GalleryCategoryMax)

\* C11: a submission of any of the three forms whose input violates the
\* form's schema (a required field blank after trimming, a text over its
\* maximum length, a year outside its range) writes and uploads nothing,
\* shows an error notice, does not set the submitting flag and leaves the
\* form fields and the in-memory lists as they were.
C11_InvalidInputRejected ==
    [][\/ handleSubmit /\ ViolatesProjectSchema
       \/ handleServiceSubmit /\ ViolatesServiceSchema
       \/ handleGallerySubmit /\ ViolatesGallerySchema
       => /\ Rejected
          /\ ~submitting' /\ ~serviceSubmitting' /\ ~gallerySubmitting'
          /\ UNCHANGED <<projectFields, serviceFields, galleryFields, images,
                         projectVideos, serviceImages, serviceVideos,
                         editingService, galleryImages, listVars>>]_vars
\* a video with a title of 201 characters has been submitted and refused
C11_Witness ==
    /\ Shown("gallery")
    /\ galleryMediaType = "video" /\ Truthy(trim(galleryVideoUrl))
    /\ TooLong(galleryTitle, GalleryTitleMax)
    /\ toast = Toast("Error", "validation")
    /\ ~gallerySubmitting
    /\ gallerySubmitCalls = <<>>
    /\ db = InitDb

\* C12: a new service whose slug is the slug of an existing service passes
\* local validation and its insert is issued; when the backend answers
\* with the uniqueness error the handler ends with an error notice, having
\* issued no upload, no service row is added and the form is retained.
C12_DuplicateSlugRefusedByBackend ==
    [][/\ /\ handleServiceSubmit
          /\ editingService = 0
          /\ SlugTaken(trim(serviceSlug), 0)
          /\ ~ViolatesServiceSchema
          => /\ serviceSubmitCalls' # serviceSubmitCalls
             /\ serviceSubmitCalls'[Len(serviceSubmitCalls')].reqs
                  = <<Request("insert", "services", 0)>>
       /\ \A k \in 1..Len(serviceSubmitCalls) :
            LET c == serviceSubmitCalls[k] IN
            /\ c.pc = "services"
            /\ SlugTaken(c.data.slug, 0)
            /\ Answered(serviceSubmitCalls, serviceSubmitCalls', k)
            => /\ Ended(serviceSubmitCalls, serviceSubmitCalls', k)
               /\ toast' = Toast("Error", "error.message")
               /\ c.reqs = <<Request("insert", "services", 0)>>
               /\ UNCHANGED <<backendVars, fetchCalls, serviceFields,
                              serviceImages, serviceVideos, editingService>>
      ]_vars
\* the creation of a second service with the slug of the first, and two
\* images, has been refused by the backend
C12_Witness ==
    /\ toast = Toast("Error", "error.message")
    /\ serviceSubmitCalls = <<>>
    /\ editingService = 0
    /\ SlugTaken(trim(serviceSlug), 0)
    /\ Len(serviceImages) = 2
    /\ db = InitDb /\ uploads = 0

\* the handler refreshes its own collection, once
Refreshed(coll) == fetchCalls' = Append(fetchCalls, Sent(coll))
\* how a mutating handler ends: with the success notice and one refresh of
\* its collection, or with an error notice and none; a step that commits the
\* handler's last write is a success; the lists shown stay as they are
EndsWithOneRefreshOrNone(coll) ==
    /\ IF toast'.title = "Success"
       THEN Refreshed(coll)
       ELSE toast'.title = "Error" /\ fetchCalls' = fetchCalls
    /\ db' # db => toast'.title = "Success"
    /\ UNCHANGED listVars

\* C13: every mutating operation (project creation, service creation,
\* service update, gallery creation, the three deletes) issues exactly one
\* refresh of its own collection when it succeeds; when it fails, or when
\* its input is rejected, it shows an error notice, issues no refresh and
\* leaves the lists unchanged.
C13_OneRefreshOnSuccessOnly ==
    [][/\ \A k \in 1..Len(submitCalls) :
            Ended(submitCalls, submitCalls', k)
            => EndsWithOneRefreshOrNone("projects")
       /\ \A k \in 1..Len(serviceSubmitCalls) :
            Ended(serviceSubmitCalls, serviceSubmitCalls', k)
            => EndsWithOneRefreshOrNone("services")
       /\ \A k \in 1..Len(gallerySubmitCalls) :
            Ended(gallerySubmitCalls, gallerySubmitCalls', k)
            => EndsWithOneRefreshOrNone("galleryItems")
       /\ \A k \in 1..Len(deleteCalls) :
            Ended(deleteCalls, deleteCalls', k)
            => EndsWithOneRefreshOrNone(deleteCalls[k].coll)
       /\ \/ handleSubmit /\ submitCalls' = submitCalls
          \/ handleServiceSubmit /\ serviceSubmitCalls' = serviceSubmitCalls
          \/ handleGallerySubmit /\ gallerySubmitCalls' = gallerySubmitCalls
          => /\ toast'.title = "Error"
             /\ UNCHANGED <<fetchCalls, listVars>>
      ]_vars
\* a service has been updated and its one refresh is on its way while the
\* list still shows the row as it was
C13_Witness ==
    /\ toast = Toast("Success", "Service updated successfully")
    /\ fetchCalls = <<Sent("services")>>
    /\ serviceSubmitCalls = <<>>
    /\ \E r \in db["services"] : r.id = -1 /\ r.slug = Slug
    /\ services[1].slug = Word

\* the delete requests in flight: a storage removal or a row delete
DeleteRequests == {k \in 1..Len(deleteCalls) : deleteCalls[k].pc \in {"remove", "delete"}}
\* the step takes a row or a stored object away from the backend
BackendShrinks ==
    \/ \E coll \in Collections :
           \E r \in db[FetchTable[coll]] : \A q \in db'[FetchTable[coll]] : q.id # r.id
    \/ \E t \in Tables : /\ \A coll \in Collections : FetchTable[coll] # t
                         /\ ~(db[t] \subseteq db'[t])
    \/ \E o \in storage : o \notin storage'

\* C14: no delete request, of a row or of a stored file, is issued unless
\* the operator accepted the confirmation dialog, and nothing leaves the
\* backend but by such a request; a declined dialog leaves the backend and
\* the view unchanged.
C14_DeleteOnlyAfterConfirm ==
    [][/\ Len(deleteCalls') > Len(deleteCalls)
          => \/ deleteProjectWith(TRUE)
             \/ deleteServiceWith(TRUE)
             \/ deleteGalleryItemWith(TRUE)
       /\ BackendShrinks
          => \E k \in DeleteRequests : Answered(deleteCalls, deleteCalls', k)
       /\ \/ deleteProjectWith(FALSE)
          \/ deleteServiceWith(FALSE)
          \/ deleteGalleryItemWith(FALSE)
          => UNCHANGED vars
      ]_vars
\* an accepted delete of the listed gallery item is in flight, its storage
\* removal issued, and nothing has left the backend yet
C14_Witness ==
    /\ deleteCalls = <<DeleteCall("galleryItems", "remove", -1, FirstPicture)>>
    /\ db = InitDb
    /\ storage = {FirstPicture}

\* the stored files of an entity: those its image and video rows point to,
\* or the picture of a gallery item
StoredFilesOf(coll, id) ==
    LET rows == CASE coll = "projects" -> db["project_images"] \cup db["project_videos"]
                  [] coll = "services" -> db["service_images"] \cup db["service_videos"]
                  [] OTHER -> {}
    IN {o \in storage :
          \/ \E r \in rows : r.parent = id /\ r.url = o
          \/ /\ coll = "galleryItems"
             /\ \E r \in db["gallery"] : r.id = id /\ r.image_url = o}

\* C15 as stated: every confirmed delete of an entity that has stored files
\* has attempted to remove them by the time it has deleted the row.
C15_DeleteRemovesStoredFiles ==
    [][\A k \in 1..Len(deleteCalls) :
          LET c == deleteCalls[k] IN
          /\ Ended(deleteCalls, deleteCalls', k)
          /\ toast'.title = "Success"
          /\ StoredFilesOf(c.coll, c.id) # {}
          => \E j \in 1..Len(c.reqs) : c.reqs[j].op = "remove"]_vars

\* C16: when getSession finds no session at mount the view redirects to the
\* login page and checkAuth returns; from then on no fetch of projects,
\* services or gallery items is ever issued and the view never leaves the
\* loading state; and every auth-state change with no session that arrives
\* while the view is mounted redirects to the login page.
C16_NoSessionRedirects ==
    /\ [](authPc = "returned"
            => /\ route = "/auth"
               /\ loading
               /\ fetchCalls = <<>>
               /\ projects = <<>> /\ services = <<>> /\ galleryItems = <<>>)
    /\ [][/\ getSessionResolved /\ ~session
             => /\ route' = "/auth"
                /\ authPc' = "returned"
                /\ loading'
                /\ fetchCalls' = <<>>
          /\ onAuthStateChange /\ route = "/admin" /\ ~session'
             => route' = "/auth"
         ]_vars
\* there was no session at mount and the view has redirected; a session
\* that appears afterwards changes nothing on the view
C16_Witness ==
    /\ authPc = "returned"
    /\ session
    /\ route = "/auth"
    /\ loading
    /\ fetchCalls = <<>>

\* C17 as stated: after every successful submission the pending file
\* selections of its form are empty: images and projectVideos, serviceImages
\* and serviceVideos, galleryImages.
C17_SelectionsEmptyAfterSuccess ==
    [][/\ (\E k \in 1..Len(submitCalls) : Ended(submitCalls, submitCalls', k))
          /\ toast'.title = "Success"
          => images' = <<>> /\ projectVideos' = <<>>
       /\ (\E k \in 1..Len(serviceSubmitCalls) :
              Ended(serviceSubmitCalls, serviceSubmitCalls', k))
          /\ toast'.title = "Success"
          => serviceImages' = <<>> /\ serviceVideos' = <<>>
       /\ (\E k \in 1..Len(gallerySubmitCalls) :
              Ended(gallerySubmitCalls, gallerySubmitCalls', k))
          /\ toast'.title = "Success"
          => galleryImages' = <<>>
      ]_vars

\* the one request of a service update
UpdateOnly(c) == <<Request("update", "services", c.editing)>>
\* C18: a service update issues exactly one request, the update of the
\* services row: no storage upload and no insert into service_images or
\* service_videos, also when files were selected before Edit was clicked.
C18_UpdateIssuesNoUpload ==
    [][/\ handleServiceSubmit /\ editingService # 0
          /\ serviceSubmitCalls' # serviceSubmitCalls
          => LET c == serviceSubmitCalls'[Len(serviceSubmitCalls')] IN
             /\ c.editing = editingService
             /\ c.images = serviceImages /\ c.videos = serviceVideos
             /\ c.reqs = UpdateOnly(c)
       /\ \A k \in 1..Len(serviceSubmitCalls) :
            LET c == serviceSubmitCalls[k] IN
            c.editing # 0 /\ Answered(serviceSubmitCalls, serviceSubmitCalls', k)
            => /\ Ended(serviceSubmitCalls, serviceSubmitCalls', k)
               /\ c.reqs = UpdateOnly(c)
               /\ UNCHANGED <<storage, uploads>>
               /\ db'["service_images"] = db["service_images"]
               /\ db'["service_videos"] = db["service_videos"]
      ]_vars
\* an update is in flight of a service whose form had an image and a video
\* selected before Edit was clicked
C18_Witness ==
    /\ Len(serviceSubmitCalls) = 1
    /\ serviceSubmitCalls[1].editing = -1
    /\ serviceSubmitCalls[1].images # <<>>
    /\ serviceSubmitCalls[1].videos # <<>>
    /\ serviceSubmitCalls[1].reqs = UpdateOnly(serviceSubmitCalls[1])

\* the rows a step adds to table t
Added(t) == db'[t] \ db[t]
\* the insert that answers call k of the list calls, waiting at table t, gives
\* its row the position of the file in the selection
InsertsAtIndex(calls, after, pcs, t) ==
    \A k \in 1..Len(calls) :
        calls[k].pc \in pcs /\ Answered(calls, after, k)
        => \A r \in Added(t) : /\ "display_order" \in DOMAIN r
                                /\ r.display_order = calls[k].i

\* C19 as stated: every row the media pipeline inserts, in project_images,
\* project_videos, service_images, service_videos and gallery, carries
\* display_order equal to the index of its file in the selection.
C19_DisplayOrderIsIndex ==
    [][/\ InsertsAtIndex(submitCalls, submitCalls', {"project_images"}, "project_images")
       /\ InsertsAtIndex(submitCalls, submitCalls', {"project_videos"}, "project_videos")
       /\ InsertsAtIndex(serviceSubmitCalls, serviceSubmitCalls',
                         {"service_images"}, "service_images")
       /\ InsertsAtIndex(serviceSubmitCalls, serviceSubmitCalls',
                         {"service_videos"}, "service_videos")
       /\ InsertsAtIndex(gallerySubmitCalls, gallerySubmitCalls', {"gallery"}, "gallery")
      ]_vars

\* upload and insert of the files 1..n of q, one file after the other
FilePairs(q, n, kind, table) ==
    [j \in 1..(2 * n) |->
        IF j % 2 = 1 THEN Request("upload", kind, q[(j + 1) \div 2])
        ELSE Request("insert", table, (j \div 2) - 1)]
\* the requests of a loop that is at file i + 1 of q, awaiting its upload or
\* the insert of its row
IssuedByLoop(q, i, atInsert, kind, table) ==
    IF atInsert THEN FilePairs(q, i + 1, kind, table)
    ELSE FilePairs(q, i, kind, table) \o <<Request("upload", kind, q[i + 1])>>
\* the requests of a creation c, from the insert of the parent row on
IssuedByCreation(c, parents, imageRows, videoRows) ==
    <<Request("insert", parents, 0)>> \o
    (IF c.pc \in {"image_upload", imageRows}
     THEN IssuedByLoop(c.images, c.i, c.pc = imageRows, "image", imageRows)
     ELSE IF c.pc \in {"video_upload", videoRows}
     THEN FilePairs(c.images, Len(c.images), "image", imageRows)
            \o IssuedByLoop(c.videos, c.i, c.pc = videoRows, "video", videoRows)
     ELSE <<>>)
\* every request of c but the last one has been answered: the files of the
\* uploads are stored, in the order of the selection
AllButLastAnswered(c, files) ==
    /\ Len(c.urls) = Cardinality({j \in 1..Len(c.reqs) : IsUpload(c.reqs[j])})
                       - (IF IsUpload(c.reqs[Len(c.reqs)]) THEN 1 ELSE 0)
    /\ \A j \in 1..Len(c.urls) : c.urls[j] \in storage /\ c.urls[j].file = files[j]
\* the rows committed for the owner are those of the first n files, in order
RowsInOrder(rows, owner, urls, n) ==
    {[url |-> r.url, display_order |-> r.display_order] : r \in ChildRows(rows, owner)}
      = {[url |-> urls[j], display_order |-> j - 1] : j \in 1..n}
\* the rows of a creation c: of the images before the current one, and of
\* all the images and the videos before the current one in the video loop
CreationInOrder(c, parents, imageRows, videoRows) ==
    LET inVideos == c.pc \in {"video_upload", videoRows}
        n == IF c.pc = parents THEN 0 ELSE IF inVideos THEN Len(c.images) ELSE c.i
    IN
    /\ c.reqs = IssuedByCreation(c, parents, imageRows, videoRows)
    /\ AllButLastAnswered(c, c.images \o c.videos)
    /\ RowsInOrder(db[imageRows], c.id, c.urls, n)
    /\ RowsInOrder(db[videoRows], c.id,
                   SubSeq(c.urls, n + 1, Len(c.urls)), IF inVideos THEN c.i ELSE 0)
\* the gallery rows of an image submission c: one for each image before the
\* current one, created in the order of the selection
GalleryInOrder(c) ==
    /\ c.reqs = IssuedByLoop(c.images, c.i, c.pc = "gallery", "image", "gallery")
    /\ AllButLastAnswered(c, c.images)
    /\ {r.image_url : r \in {q \in db["gallery"] : q.image_url \in Range(c.urls)}}
         = {c.urls[j] : j \in 1..c.i}
    /\ \A r, q \in db["gallery"] :
          \A j, l \in 1..Len(c.urls) :
             r.image_url = c.urls[j] /\ q.image_url = c.urls[l] /\ j < l => r.id < q.id

\* C20: a submission has one request in flight at a time, the last it has
\* issued: the upload of a file is issued only after the upload and the row
\* insert of the files before it have been answered, and the rows committed
\* so far are those of the first files of the selection, in its order.
C20_OneRequestAtATime ==
    /\ \A k \in 1..Len(submitCalls) :
          CreationInOrder(submitCalls[k], "projects", "project_images",
                          "project_videos")
    /\ \A k \in 1..Len(serviceSubmitCalls) :
          serviceSubmitCalls[k].editing = 0
          => CreationInOrder(serviceSubmitCalls[k], "services", "service_images",
                             "service_videos")
    /\ \A k \in 1..Len(gallerySubmitCalls) :
          gallerySubmitCalls[k].mode = "image" => GalleryInOrder(gallerySubmitCalls[k])
\* a project creation with two images and a video has committed both image
\* rows and awaits the upload of the video
C20_Witness ==
    /\ Len(submitCalls) = 1
    /\ submitCalls[1].pc = "video_upload"
    /\ Len(submitCalls[1].images) = 2
    /\ Len(submitCalls[1].reqs) = 6
    /\ Cardinality(ChildRows(db["project_images"], submitCalls[1].id)) = 2

\* a creation c that awaits the insert of its parent row has issued nothing
\* else and has no id; afterwards its id is that of a row of the parent
\* table, its uploads are under that id and its child rows point to it
ScopedByParent(c, parents, imageRows, videoRows) ==
    IF c.pc = parents
    THEN /\ c.id = 0
         /\ c.reqs = <<Request("insert", parents, 0)>>
         /\ c.urls = <<>>
    ELSE /\ c.reqs[1] = Request("insert", parents, 0)
         /\ \E r \in db[parents] : r.id = c.id
         /\ \A j \in 1..Len(c.urls) : c.urls[j].dir = c.id
         /\ \A r \in db[imageRows] \cup db[videoRows] :
               r.url \in Range(c.urls) => r.parent = c.id
\* the step that answers the parent insert of call k: on success the call
\* takes the id of the row just added, on failure it ends with an error
\* notice having uploaded and inserted nothing
ParentAnswered(calls, after, k, parents) ==
    calls[k].pc = parents /\ Answered(calls, after, k)
    => /\ UNCHANGED <<storage, uploads>>
       /\ \A t \in Tables \ {parents} : db'[t] = db[t]
       /\ IF db'[parents] = db[parents]
          THEN /\ Ended(calls, after, k)
               /\ toast'.title = "Error"
          ELSE \E r \in db'[parents] \ db[parents] :
                  /\ db'[parents] = db[parents] \cup {r}
                  /\ Ended(calls, after, k) \/ after[k].id = r.id

\* C21: in a project or service creation no upload and no child-row insert
\* is issued before the parent insert has returned its id, every uploaded
\* path and every child row of the submission is scoped by that id, and a
\* failed parent insert is followed by no upload and no child insert.
C21_ParentBeforeChildren ==
    /\ [](/\ \A k \in 1..Len(submitCalls) :
               ScopedByParent(submitCalls[k], "projects", "project_images",
                              "project_videos")
          /\ \A k \in 1..Len(serviceSubmitCalls) :
               serviceSubmitCalls[k].editing = 0
               => ScopedByParent(serviceSubmitCalls[k], "services",
                                 "service_images", "service_videos"))
    /\ [][/\ \A k \in 1..Len(submitCalls) :
               ParentAnswered(submitCalls, submitCalls', k, "projects")
          /\ \A k \in 1..Len(serviceSubmitCalls) :
               ParentAnswered(serviceSubmitCalls, serviceSubmitCalls', k, "services")
         ]_vars
\* a service creation has uploaded its image under the id of the row the
\* parent insert returned and awaits the insert of the image row
C21_Witness ==
    /\ Len(serviceSubmitCalls) = 1
    /\ serviceSubmitCalls[1].pc = "service_images"
    /\ serviceSubmitCalls[1].id = 1
    /\ Len(serviceSubmitCalls[1].urls) = 1
    /\ serviceSubmitCalls[1].urls[1].dir = 1
    /\ serviceSubmitCalls[1].urls[1] \in storage

\* C22 as stated: while a submission that reads a form's pending file
\* selection is in flight, no other handler (file input, remove button,
\* cancelEditService) accesses that selection: a step that is not the
\* submission's own leaves the selection as it is.
C22_SelectionOwnedBySubmission ==
    [][/\ submitCalls # <<>> /\ submitCalls' = submitCalls
          => UNCHANGED <<images, projectVideos>>
       /\ serviceSubmitCalls # <<>> /\ serviceSubmitCalls' = serviceSubmitCalls
          => UNCHANGED <<serviceImages, serviceVideos>>
       /\ gallerySubmitCalls # <<>> /\ gallerySubmitCalls' = gallerySubmitCalls
          => UNCHANGED galleryImages
      ]_vars

\* what a submission took from the form when Submit was clicked
Submitted(c) == [data |-> c.data, images |-> c.images, videos |-> c.videos]
\* the calls in flight keep what they took from the form: a step either
\* leaves the list alone, ends one call, or moves one call on
KeepsSubmitted(calls, after) ==
    \/ after = calls
    \/ \E k \in 1..Len(calls) : Ended(calls, after, k)
    \/ /\ Len(after) = Len(calls)
       /\ \A k \in 1..Len(calls) : Submitted(after[k]) = Submitted(calls[k])
    \/ /\ Len(after) = Len(calls) + 1
       /\ SubSeq(after, 1, Len(calls)) = calls
\* all the uploads of a creation whose last request is being answered
UploadsOfAll(c) ==
    [j \in 1..Len(c.images) |-> Request("upload", "image", c.images[j])]
      \o [j \in 1..Len(c.videos) |-> Request("upload", "video", c.videos[j])]

\* C23: no operator event aborts or retargets a submission in flight: the
\* submission keeps the id, the values and the files of the click; a
\* service update changes the row that was being edited at the click to the
\* values submitted then, and a creation that succeeds has uploaded exactly
\* the files selected at the click, whatever Cancel, Edit or the file inputs
\* did in between.
C23_SubmissionKeepsItsInput ==
    [][/\ handleServiceSubmit /\ serviceSubmitCalls' # serviceSubmitCalls
          => LET c == serviceSubmitCalls'[Len(serviceSubmitCalls')] IN
             /\ c.editing = editingService
             /\ c.data = ServiceData(serviceSchemaParse(ServiceInput))
             /\ c.images = serviceImages /\ c.videos = serviceVideos
       /\ handleSubmit /\ submitCalls' # submitCalls
          => LET c == submitCalls'[Len(submitCalls')] IN
             /\ c.data = ProjectData(projectSchemaParse(ProjectInput))
             /\ c.images = images /\ c.videos = projectVideos
       /\ KeepsSubmitted(submitCalls, submitCalls')
       /\ KeepsSubmitted(serviceSubmitCalls, serviceSubmitCalls')
       /\ \A k \in 1..Len(serviceSubmitCalls) :
            Len(serviceSubmitCalls') = Len(serviceSubmitCalls)
            => serviceSubmitCalls'[k].editing = serviceSubmitCalls[k].editing
       /\ \A k \in 1..Len(serviceSubmitCalls) :
            LET c == serviceSubmitCalls[k] IN
            /\ c.editing # 0
            /\ Ended(serviceSubmitCalls, serviceSubmitCalls', k)
            /\ toast'.title = "Success"
            => db' = [db EXCEPT !["services"] =
                        {IF r.id = c.editing THEN UpdatedService(r, c.data) ELSE r :
                            r \in @}]
       /\ \A k \in 1..Len(submitCalls) :
            Ended(submitCalls, submitCalls', k) /\ toast'.title = "Success"
            => SelectSeq(submitCalls[k].reqs, IsUpload) = UploadsOfAll(submitCalls[k])
       /\ \A k \in 1..Len(serviceSubmitCalls) :
            /\ serviceSubmitCalls[k].editing = 0
            /\ Ended(serviceSubmitCalls, serviceSubmitCalls', k)
            /\ toast'.title = "Success"
            => SelectSeq(serviceSubmitCalls[k].reqs, IsUpload)
                 = UploadsOfAll(serviceSubmitCalls[k])
      ]_vars
\* the update of the listed service is in flight with the values of the
\* click while Cancel has emptied the form
C23_Witness ==
    /\ Len(serviceSubmitCalls) = 1
    /\ serviceSubmitCalls[1].pc = "update"
    /\ serviceSubmitCalls[1].editing = -1
    /\ serviceSubmitCalls[1].data.slug = Slug
    /\ editingService = 0
    /\ serviceSlug = Empty

\* C24: a submission whose requests are all answered, with success or with
\* an error, comes to its end and leaves the submitting flag of its form
\* false, so that Submit is enabled again; and a form with no submission in
\* flight has its submitting flag false.
C24_SubmittingIsReset ==
    /\ [](/\ submitCalls = <<>> => ~submitting /\ ~SubmitDisabled
          /\ serviceSubmitCalls = <<>> => ~serviceSubmitting /\ ~ServiceSubmitDisabled
          /\ gallerySubmitCalls = <<>> => ~gallerySubmitting /\ ~GallerySubmitDisabled)
    /\ (submitCalls # <<>> ~> submitCalls = <<>> /\ ~submitting)
    /\ (serviceSubmitCalls # <<>> ~> serviceSubmitCalls = <<>> /\ ~serviceSubmitting)
    /\ (gallerySubmitCalls # <<>> ~> gallerySubmitCalls = <<>> /\ ~gallerySubmitting)
\* a project creation has failed at the upload of its image: the form is as
\* submitted and Submit is enabled for a retry
C24_Witness ==
    /\ toast = Toast("Error", "error.message")
    /\ submitCalls = <<>>
    /\ ~submitting
    /\ title = Word
    /\ Len(images) = 1
    /\ \E r \in db["projects"] : r.id = 1
    /\ uploads = 0

\* a year_completed as an insert may carry it: absent, or an integer within
\* the bounds
YearInRange(y) ==
    \/ y = NoNum
    \/ y.kind = "number" /\ y.val >= YearMin /\ y.val <= CurrentYear + 1
\* every insert of a project issued or committed carries such a year
InsertsCarryYearInRange ==
    /\ \A k \in 1..Len(submitCalls) : YearInRange(submitCalls[k].data.year_completed)
    /\ \A r \in db["projects"] : YearInRange(r.year_completed)
\* the year typed has no number parseInt can read
YearUnparsable == yearCompleted.kind \notin {"empty", "int", "frac"}
\* the number typed is outside the bounds: a number with a fraction lies
\* between its integer part and the next integer
YearInputOutside ==
    \/ yearCompleted.kind = "int"
         /\ (yearCompleted.val < YearMin \/ yearCompleted.val > CurrentYear + 1)
    \/ yearCompleted.kind = "frac"
         /\ (yearCompleted.val < YearMin \/ yearCompleted.val >= CurrentYear + 1)
\* the integer parseInt reads from the year typed is outside the bounds
YearReadOutside ==
    /\ yearCompleted.kind \in {"int", "frac"}
    /\ yearCompleted.val < YearMin \/ yearCompleted.val > CurrentYear + 1

C25_YearReadOutsideRejected ==
    /\ []InsertsCarryYearInRange
    /\ [][handleSubmit /\ (YearReadOutside \/ YearUnparsable) => Rejected]_vars
\* a project typed with a year a fraction above the upper bound is being
\* inserted with the upper bound as its year
C25_Witness ==
    /\ Len(submitCalls) = 1
    /\ yearCompleted = YearText("frac", CurrentYear + 1)
    /\ submitCalls[1].data.year_completed = Num(CurrentYear + 1)

\* the step on which the creation in flight at position k ends in success
\* has, in the backend it leaves, the parent row of that creation, a child
\* image row for each of its images and a child video row for each of its
\* videos; the parent id is the one the backend has given or gives on this
\* very step
CreationPersisted(calls, after, k, parents, imageRows, videoRows) ==
    LET c == calls[k]
        id == IF c.pc = parents THEN nextId ELSE c.id
    IN
    /\ Ended(calls, after, k)
    => /\ c.pc = parents => db' # db
       /\ \E r \in db'[parents] : r.id = id /\ r.id > 0
       /\ Cardinality(ChildRows(db'[imageRows], id)) = Len(c.images)
       /\ Cardinality(ChildRows(db'[videoRows], id)) = Len(c.videos)
       /\ \A j \in 1..Len(c.urls) : \E r \in db'[imageRows] \cup db'[videoRows] :
             r.parent = id /\ r.url = c.urls[j]
\* the step on which the gallery image submission at position k ends in
\* success leaves a gallery row for each of its images
GalleryPersisted(k) ==
    LET c == gallerySubmitCalls[k] IN
    /\ Ended(gallerySubmitCalls, gallerySubmitCalls', k)
    /\ c.mode = "image"
    => /\ Len(c.urls) = Len(c.images)
       /\ Cardinality({r \in db'["gallery"] :
                         r.media_type = "image" /\ r.image_url \in Range(c.urls)})
            >= Cardinality(Range(c.urls))
       /\ Cardinality({r \in db'["gallery"] : r.id > 0}) >= Len(c.images)

\* C26: a success notice implies complete persistence: "Project created
\* successfully" and "Service created successfully" are shown only when the
\* parent row, every image row and every video row of that submission are
\* committed, and the gallery's "uploaded successfully" only when a gallery
\* row is committed for every selected image.
C26_SuccessMeansPersisted ==
    [][/\ toast' = Toast("Success", "Project created successfully")
          => \A k \in 1..Len(submitCalls) :
                CreationPersisted(submitCalls, submitCalls', k, "projects",
                                  "project_images", "project_videos")
       /\ toast' = Toast("Success", "Service created successfully")
          => \A k \in 1..Len(serviceSubmitCalls) :
                serviceSubmitCalls[k].editing = 0
                => CreationPersisted(serviceSubmitCalls, serviceSubmitCalls', k,
                                     "services", "service_images", "service_videos")
       /\ toast' = Toast("Success", "images uploaded successfully")
          => \A k \in 1..Len(gallerySubmitCalls) : GalleryPersisted(k)
      ]_vars
\* a project has just been created with an image and a video, both rows
\* committed
C26_Witness ==
    /\ toast = Toast("Success", "Project created successfully")
    /\ submitCalls = <<>>
    /\ \E r \in db["projects"] :
          /\ r.id > 0
          /\ ChildRows(db["project_images"], r.id) # {}
          /\ ChildRows(db["project_videos"], r.id) # {}

\* the services row an update addresses, before and after a step
ServiceRow(rows, id) == CHOOSE r \in rows : r.id = id
\* the call the click appends is an update whose payload leaves out the
\* short description and the icon when the field is blank
BlankFieldsOmitted ==
    \A c \in Range(serviceSubmitCalls') :
        serviceSubmitCalls' = Append(serviceSubmitCalls, c) /\ c.editing # 0
        => /\ Blank(serviceShortDesc) => c.data.short_description = Undefined
           /\ Blank(serviceIcon) => c.data.icon = Undefined
           /\ ~Blank(serviceShortDesc) => c.data.short_description = trim(serviceShortDesc)
           /\ ~Blank(serviceIcon) => c.data.icon = trim(serviceIcon)
\* the answer to the update at position k leaves the columns its payload
\* omits as they were stored
OmittedColumnsKept(k) ==
    LET c == serviceSubmitCalls[k] IN
    /\ c.editing # 0
    /\ Answered(serviceSubmitCalls, serviceSubmitCalls', k)
    /\ \E r \in db["services"] : r.id = c.editing
    => /\ \E r \in db'["services"] : r.id = c.editing
       /\ c.data.short_description = Undefined
          => ServiceRow(db'["services"], c.editing).short_description
               = ServiceRow(db["services"], c.editing).short_description
       /\ c.data.icon = Undefined
          => ServiceRow(db'["services"], c.editing).icon
               = ServiceRow(db["services"], c.editing).icon

\* C27: a service update never writes short_description or icon when the
\* form field is blank after trimming: the payload omits the field and the
\* stored value is left as it was, not cleared.
C27_BlankOptionalNotWritten ==
    [][/\ BlankFieldsOmitted
       /\ \A k \in 1..Len(serviceSubmitCalls) : OmittedColumnsKept(k)]_vars
\* a service whose stored short description is not null has just been
\* updated from a form retyped with a blank short description and a blank
\* icon: the update has changed the slug, the stored short description is
\* still there and the icon is still null
C27_Witness ==
    /\ toast = Toast("Success", "Service updated successfully")
    /\ serviceSubmitCalls = <<>>
    /\ \E r \in db["services"] :
          /\ r.id = -1
          /\ r.slug = Slug
          /\ r.short_description = Word
          /\ r.icon = Null

\* the gallery form as the click finds it has nothing to submit
NothingToSubmit ==
    \/ galleryMediaType = "image" /\ Len(galleryImages) = 0
    \/ galleryMediaType = "video" /\ Blank(galleryVideoUrl)
\* the click returns early: an error notice, and nothing else changes
ReturnsEarly ==
    /\ toast'.title = "Error"
    /\ toast'.description \in {"Please select at least one image",
                               "Please enter a video URL"}
    /\ UNCHANGED <<backendVars, callVars, fetchCalls, galleryFields, galleryImages,
                   gallerySubmitting>>
\* the click in video mode with a URL starts a submission of that URL,
\* trimmed, whose only request is the insert of one row
StartsVideo ==
    /\ Len(gallerySubmitCalls') = Len(gallerySubmitCalls) + 1
    /\ LET c == gallerySubmitCalls'[Len(gallerySubmitCalls')] IN
       /\ c.mode = "video"
       /\ c.videoUrl = trim(galleryVideoUrl)
       /\ c.reqs = <<Request("insert", "gallery", 0)>>
    /\ UNCHANGED backendVars
\* the answer to the video submission at position k ends it, stores no file
\* and, when it succeeds, commits exactly one row: a video row with a null
\* image_url and the URL of the submission
VideoRowOnly(k) ==
    LET c == gallerySubmitCalls[k]
        new == db'["gallery"] \ db["gallery"]
    IN
    /\ c.mode = "video"
    /\ Answered(gallerySubmitCalls, gallerySubmitCalls', k)
    => /\ Ended(gallerySubmitCalls, gallerySubmitCalls', k)
       /\ c.reqs = <<Request("insert", "gallery", 0)>>
       /\ storage' = storage /\ uploads' = uploads
       /\ toast'.title = "Success"
          => /\ Cardinality(new) = 1
             /\ \A r \in new : /\ r.media_type = "video"
                               /\ r.image_url = NoObject
                               /\ r.video_url = c.videoUrl
                               /\ Truthy(r.video_url) /\ r.video_url.pad = 0
       /\ toast'.title # "Success" => new = {}

\* C28: a gallery submission in image mode with no image, or in video mode
\* with a URL blank after trimming, issues no network call, shows an error
\* notice, leaves the gallery fields unchanged and does not set
\* gallerySubmitting; a valid video-mode submission issues no storage
\* upload and inserts exactly one gallery row with media_type 'video',
\* image_url null and video_url the trimmed URL, whatever images are
\* selected.
C28_GalleryModes ==
    [][/\ handleGallerySubmit /\ NothingToSubmit => ReturnsEarly
       /\ handleGallerySubmit /\ ~NothingToSubmit /\ galleryMediaType = "video"
          /\ gallerySchemaOK(GalleryInput)
          => StartsVideo
       /\ \A k \in 1..Len(gallerySubmitCalls) : VideoRowOnly(k)]_vars
\* a video submission is in flight, from a form that has an image selected
\* and a URL with a space after it: its one request is the insert of the
\* row, with the trimmed URL, and no file has been stored
C28_Witness ==
    /\ Len(gallerySubmitCalls) = 1
    /\ gallerySubmitCalls[1].mode = "video"
    /\ Len(gallerySubmitCalls[1].images) > 0
    /\ galleryVideoUrl = Text(20, 1, "u")
    /\ gallerySubmitCalls[1].videoUrl = Url
    /\ gallerySubmitCalls[1].reqs = <<Request("insert", "gallery", 0)>>
    /\ storage = {FirstPicture}
\* the lightbox of view v, opened from the grid item at index, shows that
\* item: the index it is opened at is within the list of images and the
\* entry there has the id of the item
OpensAt(after, shown, urls, index) ==
    /\ after.lightboxOpen
    /\ after.lightboxIndex >= 0
    /\ after.lightboxIndex < Len(urls)
    /\ urls[after.lightboxIndex + 1].id = shown[index + 1].id

C29_MediaLightboxShowsClicked ==
    [][\A index \in 0..(MaxItems - 1) :
          handleMediaClickAt(index)
          => OpensAt(mediaView', filteredMedia(mediaView),
                     mediaImageUrls(mediaView), index)]_vars

\* what the detail page shows belongs to the slug it is on: no service, or
\* the service of that slug with its own images and videos
ShowsCurrentSlug ==
    \/ serviceDetail.service = NoService
    \/ /\ serviceDetail.service.slug = serviceDetail.slug
       /\ \A j \in 1..Len(serviceDetail.images) :
             serviceDetail.images[j].path.dir = serviceDetail.service.id
       /\ \A j \in 1..Len(serviceDetail.videos) :
             serviceDetail.videos[j].parent = serviceDetail.service.id
\* the answer to an invocation made for another slug than the current one
\* leaves what the page shows as it is
StaleAnswerIgnored ==
    \A k \in 1..Len(detailCalls) :
        /\ Answered(detailCalls, detailCalls', k)
        /\ detailCalls[k].slug # serviceDetail.slug
        => /\ serviceDetail'.service = serviceDetail.service
           /\ serviceDetail'.images = serviceDetail.images
           /\ serviceDetail'.videos = serviceDetail.videos

\* C30: on the service detail page, once every request triggered by a slug
\* change has settled, loading is false and the service, images and videos
\* shown belong to the current slug, or the service is null when the lookup
\* for the current slug failed; a response for an earlier slug never
\* overwrites the state of a later one.
C30_DetailShowsCurrentSlug ==
    /\ [](detailCalls = <<>> /\ Truthy(serviceDetail.slug)
          => ~serviceDetail.loading /\ ShowsCurrentSlug)
    /\ [][StaleAnswerIgnored]_vars
\* the first half alone: settled means the current slug is shown
C30_SettledShowsCurrentSlug ==
    detailCalls = <<>> /\ Truthy(serviceDetail.slug)
    => ~serviceDetail.loading /\ ShowsCurrentSlug
\* the second half alone
C30_StaleAnswerIgnored == [][StaleAnswerIgnored]_vars

====
